---- MODULE Spec2Model ----
(***************************************************************************)
(* A model of the htmlentity codec (src/src/entity.rs): the UTF-8 scanner  *)
(* loop_utf8_bytes, the classifier CharacterSet, the formatter encode_char, *)
(* the encode pipeline (encode_with / encode_with_to), the recognizer       *)
(* Entity::decode, the decode scanners (decode / decode_to / decode_chars / *)
(* decode_chars_to) and the views with their iterator and conversions.      *)
(*                                                                         *)
(* Bytes are the integers 0..255, byte strings are sequences of bytes.     *)
(* Rust indexes are 0-based: At(s, i) is s[i], Slice(s, a, b) is s[a..b].  *)
(* An Option is a sequence of length at most one: <<>> is None, <<v>> is   *)
(* Some(v).                                                                *)
(***************************************************************************)
EXTENDS Integers, Sequences, FiniteSets, TLC

VARIABLES pc, source, content, encode_type, charset, idx, next_count, ch,
          start_index, is_in_entity, entities, errors, data, data0, table,
          ret, cow, events, handle, iter, calls, yielded,
          once, statics, runs, threads

vars == <<pc, source, content, encode_type, charset, idx, next_count, ch,
          start_index, is_in_entity, entities, errors, data, data0, table,
          ret, cow, events, handle, iter, calls, yielded,
          once, statics, runs, threads>>

\* the iterator of a view, the number of calls of its next() and the number
\* of them that returned Some
iteration == <<iter, calls, yielded>>

\* the Once, the value and the number of runs of the initialiser of each
\* lazy_static! table, and the threads
threading == <<once, statics, runs, threads>>

\* the state the calls of the codec leave alone: the Cow of the view, the
\* events loop_utf8_bytes has handed to its handler, that handler, the
\* iterator of the view, and the tables and threads
rest == <<cow, events, handle, iteration, threading>>

----------------------------------------------------------------------------
(* Bounds of the explored inputs.                                          *)

\* number of tokens concatenated into an input of the decode scanner
MaxDecTokens == 5
\* number of byte groups concatenated into an input of the encode pipeline
MaxEncTokens == 2
\* number of digit groups in the payload of a numeric reference
MaxNumTokens == 4
\* number of text pieces in a source string of the round trip
MaxSrcTokens == 3
\* number of pieces in a list of characters given to decode_chars
MaxCharTokens == 4
\* number of entries of a table of entities given to encode_char
MaxTableLen == 4
\* number of pieces in a byte string given to Entity::decode
MaxRecTokens == 4
\* number of digit groups in the payload of an interior given to Entity::decode
MaxValTokens == 3
\* number of pieces in a byte string given to loop_utf8_bytes
MaxScanTokens == 3
\* number of zeros put in front of the payload of a numeric reference
MaxLeadingZeros == 3
\* the tokens of an input whose views are iterated
MaxIterTokens == 2
\* the calls of next() after the iterator has ended
MaxNextPast == 2
\* the threads that call the codec at the same time
NumThreads == 2
\* how far past the end byte(i) is probed
ProbePast == 3

----------------------------------------------------------------------------
(* Sequences, options, integers of fixed width.                            *)

None == <<>>
Some(v) == <<v>>
IsSome(o) == Len(o) = 1
Unwrap(o) == o[1]

At(s, i) == s[i + 1]
\* s[a..b]
Slice(s, a, b) == SubSeq(s, a + 1, b)
\* s[a..]
SliceFrom(s, a) == SubSeq(s, a + 1, Len(s))

RECURSIVE Flatten(_)
Flatten(ss) == IF ss = <<>> THEN <<>> ELSE Head(ss) \o Flatten(Tail(ss))

\* all sequences over S of length 0..n
SeqsUpTo(S, n) == UNION {[1..k -> S] : k \in 0..n}

RECURSIVE Pow(_, _)
Pow(b, n) == IF n = 0 THEN 1 ELSE b * Pow(b, n - 1)

\* byte >> n on a u8
Shr(byte, n) == byte \div Pow(2, n)

----------------------------------------------------------------------------
(* Bytes the code names by a literal.                                      *)

B_AMP == 38
B_SEMI == 59
B_HASH == 35
B_LT == 60
B_GT == 62
B_QUOT == 34
B_APOS == 39
B_x == 120
B_X == 88

IsAsciiDigit(b) == b \in 48..57
IsAsciiAlphabetic(b) == b \in 65..90 \/ b \in 97..122
IsAsciiAlphanumeric(b) == IsAsciiAlphabetic(b) \/ IsAsciiDigit(b)
\* matches!(byte, b'a'..=b'f' | b'A'..=b'F' | b'0'..=b'9')
IsHexDigit(b) == b \in 97..102 \/ b \in 65..70 \/ b \in 48..57

\* names of entities, as bytes
N_lt == <<108, 116>>
N_LT == <<76, 84>>
N_gt == <<103, 116>>
N_GT == <<71, 84>>
N_amp == <<97, 109, 112>>
N_AMP == <<65, 77, 80>>
N_quot == <<113, 117, 111, 116>>
N_QUOT == <<81, 85, 79, 84>>
N_apos == <<97, 112, 111, 115>>
N_nbsp == <<110, 98, 115, 112>>
N_Tab == <<84, 97, 98>>
N_copysr == <<99, 111, 112, 121, 115, 114>>

----------------------------------------------------------------------------
(* The static tables.                                                      *)

\* HTML_BYTES without the entry of '&'
HTML_BYTES_NoAmp == [c \in {B_GT, B_LT} |-> IF c = B_GT THEN N_gt ELSE N_lt]

\* HTML_BYTES: char -> name
HTML_BYTES == [c \in {B_GT, B_LT, B_AMP} |->
                 IF c = B_GT THEN N_gt ELSE IF c = B_LT THEN N_lt ELSE N_amp]

\* SPECIAL_BYTES: HTML_BYTES plus '"' and '\''
SPECIAL_BYTES == [c \in {B_QUOT, B_APOS} \cup DOMAIN HTML_BYTES |->
                    IF c = B_QUOT THEN N_quot
                    ELSE IF c = B_APOS THEN N_apos ELSE HTML_BYTES[c]]

\* NORMAL_NAME_ENTITY_BYTE: name -> char, as a set of pairs
NORMAL_NAME_ENTITY_BYTE ==
  { <<N_lt, 60>>, <<N_LT, 60>>, <<N_gt, 62>>, <<N_GT, 62>>,
    <<N_amp, 38>>, <<N_AMP, 38>>, <<N_quot, 34>>, <<N_QUOT, 34>>,
    <<N_apos, 39>>, <<N_nbsp, 160>> }

\* data::ENTITIES: (name, code), by code ascending, the preferred name first;
\* the variable table holds it
ENTITIES ==
  << <<N_Tab, 9>>, <<N_quot, 34>>, <<N_QUOT, 34>>, <<N_amp, 38>>,
     <<N_AMP, 38>>, <<N_apos, 39>>, <<N_lt, 60>>, <<N_LT, 60>>,
     <<N_gt, 62>>, <<N_GT, 62>>, <<N_nbsp, 160>>, <<N_copysr, 8471>> >>

\* data::LETTER_ORDERED_ENTITIES: the same records, by name
LETTER_ORDERED_ENTITIES ==
  << <<N_AMP, 38>>, <<N_GT, 62>>, <<N_LT, 60>>, <<N_QUOT, 34>>,
     <<N_Tab, 9>>, <<N_amp, 38>>, <<N_apos, 39>>, <<N_copysr, 8471>>,
     <<N_gt, 62>>, <<N_lt, 60>>, <<N_nbsp, 160>>, <<N_quot, 34>> >>

\* data::FIRST_LETTER_POSITION: first byte -> (start, end) in the name order
FIRST_LETTER_POSITION ==
  [b \in {65, 71, 76, 81, 84, 97, 99, 103, 108, 110, 113} |->
     CASE b = 65 -> <<0, 1>>
       [] b = 71 -> <<1, 2>>
       [] b = 76 -> <<2, 3>>
       [] b = 81 -> <<3, 4>>
       [] b = 84 -> <<4, 5>>
       [] b = 97 -> <<5, 7>>
       [] b = 99 -> <<7, 8>>
       [] b = 103 -> <<8, 9>>
       [] b = 108 -> <<9, 10>>
       [] b = 110 -> <<10, 11>>
       [] b = 113 -> <<11, 12>>]

----------------------------------------------------------------------------
(* Numbers and characters.                                                 *)

\* char::from_u32 on a value below 2^31: Some(scalar) unless a surrogate
\* (0xD800..=0xDFFF) or above 0x10FFFF
CharFromU32(n) ==
  IF n > 1114111 \/ n \in 55296..57343 THEN None ELSE Some(n)

\* char::to_digit knowing the lowercase letters only
ToDigit_LowerOnly(b, radix) ==
  LET v == IF b \in 48..57 THEN b - 48
           ELSE IF b \in 97..122 THEN b - 87 ELSE 99
  IN IF v < radix THEN Some(v) ELSE None

\* value of an ASCII digit in the radix (char::to_digit), None when invalid
ToDigit(b, radix) ==
  LET v == IF b \in 48..57 THEN b - 48
           ELSE IF b \in 97..122 THEN b - 87
           ELSE IF b \in 65..90 THEN b - 55 ELSE 99
  IN IF v < radix THEN Some(v) ELSE None

\* An i64 that is not negative, as four 16-bit limbs, least significant
\* first.  value * radix + d, None on overflow of i64 (checked_mul,
\* checked_add).
MulAddI64(limbs, radix, d) ==
  LET t0 == limbs[1] * radix + d
      t1 == limbs[2] * radix + (t0 \div 65536)
      t2 == limbs[3] * radix + (t1 \div 65536)
      t3 == limbs[4] * radix + (t2 \div 65536)
  IN IF t3 >= 32768 THEN None
     ELSE Some(<<t0 % 65536, t1 % 65536, t2 % 65536, t3>>)

\* i64::from_str_radix on a string without sign
RECURSIVE FromStrRadixAcc(_, _, _)
FromStrRadixAcc(acc, bytes, radix) ==
  IF bytes = <<>> THEN Some(acc)
  ELSE LET d == ToDigit(Head(bytes), radix)
       IN IF ~IsSome(d) THEN None
          ELSE LET nxt == MulAddI64(acc, radix, Unwrap(d))
               IN IF ~IsSome(nxt) THEN None
                  ELSE FromStrRadixAcc(Unwrap(nxt), Tail(bytes), radix)

FromStrRadix(bytes, radix) ==
  IF bytes = <<>> THEN None ELSE FromStrRadixAcc(<<0, 0, 0, 0>>, bytes, radix)

\* "char_code as u32" followed by char::from_u32: the cast keeps the low 32
\* bits, which are the two low limbs
CastU32ToChar(limbs) ==
  IF limbs[2] > 16 THEN None ELSE CharFromU32(limbs[2] * 65536 + limbs[1])

\* numbers_to_char: Some(char) or None for Err
numbers_to_char(bytes, radix) ==
  IF bytes # <<>>
  THEN LET char_code == FromStrRadix(bytes, radix)
       IN IF ~IsSome(char_code) THEN None
          ELSE CastU32ToChar(Unwrap(char_code))
  ELSE None

\* char_to_utf8_bytes: the UTF-8 encoding of a scalar
char_to_utf8_bytes(c) ==
  IF c < 128 THEN <<c>>
  ELSE IF c < 2048 THEN <<192 + (c \div 64), 128 + (c % 64)>>
  ELSE IF c < 65536
       THEN <<224 + (c \div 4096), 128 + ((c \div 64) % 64), 128 + (c % 64)>>
  ELSE <<240 + (c \div 262144), 128 + ((c \div 4096) % 64),
         128 + ((c \div 64) % 64), 128 + (c % 64)>>

----------------------------------------------------------------------------
(* The recognizer.                                                         *)

\* every byte of the slice is in the set
AllBytes(bytes, set) == \A i \in 1..Len(bytes) : bytes[i] \in set

\* NORMAL_NAME_ENTITY_BYTE.get(bytes)
NormalNameGet(bytes) ==
  LET hits == {p \in NORMAL_NAME_ENTITY_BYTE : p[1] = bytes}
  IN IF hits = {} THEN None ELSE Some((CHOOSE p \in hits : TRUE)[2])

\* LETTER_ORDERED_ENTITIES[start..end].iter().position(|(name, _)| name == bytes)
BucketPosition(start, end, bytes) ==
  LET hits == {i \in start..(end - 1) : At(LETTER_ORDERED_ENTITIES, i)[1] = bytes}
  IN IF hits = {} THEN None
     ELSE Some((CHOOSE i \in hits : \A j \in hits : i <= j) - start)

\* the lookup of a Named interior in the hand table alone
DecodeNamed_HandOnly(bytes) == NormalNameGet(bytes)

\* the lookup of a Named interior (entity.rs 959-983)
DecodeNamed(bytes) ==
  IF IsSome(NormalNameGet(bytes)) THEN NormalNameGet(bytes)
  ELSE IF At(bytes, 0) \in DOMAIN FIRST_LETTER_POSITION
       THEN LET se == FIRST_LETTER_POSITION[At(bytes, 0)]
                find_index == BucketPosition(se[1], se[2], bytes)
            IN IF IsSome(find_index)
               THEN Some(At(LETTER_ORDERED_ENTITIES, se[1] + Unwrap(find_index))[2])
               ELSE None
       ELSE None

\* Entity::decode handing the 'x' of a Hex interior to numbers_to_char
EntityDecode_HexFromX(bytes) ==
  LET total == Len(bytes) IN
  IF total = 0 THEN None
  ELSE LET first == At(bytes, 0) IN
    IF IsAsciiAlphabetic(first)
    THEN IF AllBytes(SliceFrom(bytes, 1), {b \in 0..255 : IsAsciiAlphanumeric(b)})
         THEN DecodeNamed(bytes)
         ELSE None
    ELSE IF first = B_HASH /\ total > 1
    THEN LET second == At(bytes, 1) IN
         IF IsAsciiDigit(second)
         THEN IF AllBytes(SliceFrom(bytes, 2), {b \in 0..255 : IsAsciiDigit(b)})
              THEN numbers_to_char(SliceFrom(bytes, 1), 10)
              ELSE None
         ELSE IF second = B_x \/ second = B_X
         THEN IF total > 2
              THEN IF AllBytes(SliceFrom(bytes, 2), {b \in 0..255 : IsHexDigit(b)})
                   THEN numbers_to_char(SliceFrom(bytes, 1), 16)
                   ELSE None
              ELSE None
         ELSE None
    ELSE None

\* Entity::decode: the interior of "&...;" to Some(char), None for Err
EntityDecode(bytes) ==
  LET total == Len(bytes) IN
  IF total = 0 THEN None
  ELSE LET first == At(bytes, 0) IN
    IF IsAsciiAlphabetic(first)
    THEN IF AllBytes(SliceFrom(bytes, 1), {b \in 0..255 : IsAsciiAlphanumeric(b)})
         THEN DecodeNamed(bytes)
         ELSE None
    ELSE IF first = B_HASH /\ total > 1
    THEN LET second == At(bytes, 1) IN
         IF IsAsciiDigit(second)
         THEN IF AllBytes(SliceFrom(bytes, 2), {b \in 0..255 : IsAsciiDigit(b)})
              THEN numbers_to_char(SliceFrom(bytes, 1), 10)
              ELSE None
         ELSE IF second = B_x \/ second = B_X
         THEN IF total > 2
              THEN IF AllBytes(SliceFrom(bytes, 2), {b \in 0..255 : IsHexDigit(b)})
                   THEN numbers_to_char(SliceFrom(bytes, 2), 16)
                   ELSE None
              ELSE None
         ELSE None
    ELSE None

----------------------------------------------------------------------------
(* Encode forms, character sets, the formatter.                            *)

ET_Named == 1
ET_Hex == 2
ET_Decimal == 4
ET_NamedOrHex == 3
ET_NamedOrDecimal == 5

EncodeType == {ET_Named, ET_Hex, ET_Decimal, ET_NamedOrHex, ET_NamedOrDecimal}

CharacterSet == {"All", "NonASCII", "Html", "SpecialChars", "HtmlAndNonASCII",
                 "SpecialCharsAndNonASCII"}

\* (encode_type & bit) > 0, bit a power of two
HasBit(t, bit) == (t \div bit) % 2 = 1

CharEntity(entity_type, entity_data) ==
  [entity_type |-> entity_type, entity_data |-> entity_data]

\* filter_entity_set handing out the name whatever the form
filter_entity_set_AlwaysNamed(set, t, c) ==
  IF c \in DOMAIN set THEN <<TRUE, Some(<<"Named", set[c]>>)>>
  ELSE <<FALSE, None>>

\* filter_entity_set
filter_entity_set(set, t, c) ==
  IF c \in DOMAIN set
  THEN IF HasBit(t, ET_Named) THEN <<TRUE, Some(<<"Named", set[c]>>)>>
       ELSE <<TRUE, None>>
  ELSE <<FALSE, None>>

\* CharacterSet::filter with SpecialCharsAndNonASCII falling back to Html
filter_UnionHtml(cs, c, t) ==
  CASE cs = "SpecialChars" -> filter_entity_set(SPECIAL_BYTES, t, c)
    [] cs = "Html" -> filter_entity_set(HTML_BYTES, t, c)
    [] cs = "NonASCII" -> <<c > 255, None>>
    [] cs \in {"HtmlAndNonASCII", "SpecialCharsAndNonASCII"} ->
         IF c > 255 THEN <<TRUE, None>>
         ELSE filter_entity_set(HTML_BYTES, t, c)
    [] cs = "All" -> <<TRUE, None>>

\* CharacterSet::filter
filter(cs, c, t) ==
  CASE cs = "SpecialChars" -> filter_entity_set(SPECIAL_BYTES, t, c)
    [] cs = "Html" -> filter_entity_set(HTML_BYTES, t, c)
    [] cs = "NonASCII" -> <<c > 255, None>>
    [] cs = "HtmlAndNonASCII" ->
         IF c > 255 THEN <<TRUE, None>>
         ELSE filter_entity_set(HTML_BYTES, t, c)
    [] cs = "SpecialCharsAndNonASCII" ->
         IF c > 255 THEN <<TRUE, None>>
         ELSE filter_entity_set(SPECIAL_BYTES, t, c)
    [] cs = "All" -> <<TRUE, None>>

\* CharacterSet::contains
contains(cs, c) ==
  CASE cs = "SpecialChars" -> c \in DOMAIN SPECIAL_BYTES
    [] cs = "Html" -> c \in DOMAIN HTML_BYTES
    [] cs = "NonASCII" -> c > 255
    [] cs = "HtmlAndNonASCII" -> c > 255 \/ c \in DOMAIN HTML_BYTES
    [] cs = "SpecialCharsAndNonASCII" -> c > 255 \/ c \in DOMAIN SPECIAL_BYTES
    [] cs = "All" -> TRUE

\* format!("{:x}", n): lowercase hexadecimal digits, no leading zero
RECURSIVE FormatHex(_)
FormatHex(n) ==
  LET d == n % 16
      b == IF d < 10 THEN 48 + d ELSE 87 + d
  IN IF n < 16 THEN <<b>> ELSE Append(FormatHex(n \div 16), b)

\* n.to_string(): decimal digits
RECURSIVE FormatDec(_)
FormatDec(n) ==
  IF n < 10 THEN <<48 + n>> ELSE Append(FormatDec(n \div 10), 48 + (n % 10))

\* the indexes of the entries of the code in the table of ENTITIES
BinarySearchHits(char_code) ==
  {i \in 0..(Len(table) - 1) : At(table, i)[2] = char_code}

\* ENTITIES.binary_search_by_key(&char_code, ..): Some(index) of any entry of
\* the code, None when the table has none
binary_search_by_key(char_code) ==
  IF BinarySearchHits(char_code) = {} THEN {None}
  ELSE {Some(i) : i \in BinarySearchHits(char_code)}

\* the walk back to the first entry of the code (entity.rs 1061-1067)
RECURSIVE FirstOfCode(_, _)
FirstOfCode(index, char_code) ==
  IF index > 0 /\ At(table, index - 1)[2] = char_code
  THEN FirstOfCode(index - 1, char_code)
  ELSE index

\* encode_char giving up when the Named form finds no name
encode_char_found_NoFallback(c, t, found) ==
  IF HasBit(t, ET_Named)
  THEN IF IsSome(found)
       THEN Some(CharEntity("Named", At(table, FirstOfCode(Unwrap(found), c))[1]))
       ELSE None
  ELSE IF HasBit(t, ET_Hex) THEN Some(CharEntity("Hex", FormatHex(c)))
  ELSE IF HasBit(t, ET_Decimal) THEN Some(CharEntity("Decimal", FormatDec(c)))
  ELSE None

\* encode_char naming the entry the binary search landed on
encode_char_found_Landed(c, t, found) ==
  IF HasBit(t, ET_Named) /\ IsSome(found)
  THEN Some(CharEntity("Named", At(table, Unwrap(found))[1]))
  ELSE IF HasBit(t, ET_Hex) THEN Some(CharEntity("Hex", FormatHex(c)))
  ELSE IF HasBit(t, ET_Decimal) THEN Some(CharEntity("Decimal", FormatDec(c)))
  ELSE None

\* encode_char after its binary search returned found
encode_char_found(c, t, found) ==
  IF HasBit(t, ET_Named) /\ IsSome(found)
  THEN Some(CharEntity("Named", At(table, FirstOfCode(Unwrap(found), c))[1]))
  ELSE IF HasBit(t, ET_Hex) THEN Some(CharEntity("Hex", FormatHex(c)))
  ELSE IF HasBit(t, ET_Decimal) THEN Some(CharEntity("Decimal", FormatDec(c)))
  ELSE None

\* encode_char
encode_char(c, t) ==
  encode_char_found(c, t, CHOOSE found \in binary_search_by_key(c) : TRUE)

\* CharEntity::prefix_len
prefix_len(e) ==
  CASE e.entity_type = "Named" -> 0
    [] e.entity_type = "Hex" -> 2
    [] e.entity_type = "Decimal" -> 1

\* CharEntity::write_bytes: the bytes appended
write_bytes(e) ==
  <<B_AMP>>
  \o (CASE e.entity_type = "Named" -> <<>>
        [] e.entity_type = "Hex" -> <<B_HASH, B_x>>
        [] e.entity_type = "Decimal" -> <<B_HASH>>)
  \o e.entity_data \o <<B_SEMI>>

----------------------------------------------------------------------------
(* The UTF-8 scanner.                                                      *)

Correct(c, s, e) == [kind |-> "Correct", ch |-> c, range |-> <<s, e>>]
Wrong(s, e) == [kind |-> "Wrong", ch |-> 0, range |-> <<s, e>>]

\* loop_utf8_bytes reporting a broken sequence at the byte that broke it
loop_utf8_bytes_WrongAtIndex(nc, c, start, index, byte) ==
  IF nc = 0
  THEN IF Shr(byte, 7) = 0
       THEN [next_count |-> 0, ch |-> c, start_index |-> index,
             event |-> Some(Correct(byte, index, index))]
       ELSE IF Shr(byte, 3) = 30
       THEN [next_count |-> 3, ch |-> (byte % 8) * Pow(2, 18),
             start_index |-> index, event |-> None]
       ELSE IF Shr(byte, 4) = 14
       THEN [next_count |-> 2, ch |-> (byte % 16) * Pow(2, 12),
             start_index |-> index, event |-> None]
       ELSE IF Shr(byte, 5) = 6
       THEN [next_count |-> 1, ch |-> (byte % 32) * Pow(2, 6),
             start_index |-> index, event |-> None]
       ELSE [next_count |-> 0, ch |-> c, start_index |-> index,
             event |-> Some(Wrong(index, index))]
  ELSE IF Shr(byte, 6) = 2
       THEN LET n == nc - 1
                v == c + (byte % 64) * Pow(2, n * 6)
            IN [next_count |-> n, ch |-> v, start_index |-> start,
                event |-> IF n = 0
                          THEN IF IsSome(CharFromU32(v))
                               THEN Some(Correct(v, start, index))
                               ELSE Some(Wrong(start, index))
                          ELSE None]
       ELSE [next_count |-> 0, ch |-> c, start_index |-> start,
             event |-> Some(Wrong(index, index))]

\* One iteration of the loop of loop_utf8_bytes on (index, byte): the new
\* next_count, ch and start_index, and the event handed to the handler.
loop_utf8_bytes(nc, c, start, index, byte) ==
  IF nc = 0
  THEN IF Shr(byte, 7) = 0
       THEN [next_count |-> 0, ch |-> c, start_index |-> index,
             event |-> Some(Correct(byte, index, index))]
       ELSE IF Shr(byte, 3) = 30
       THEN [next_count |-> 3, ch |-> (byte % 8) * Pow(2, 18),
             start_index |-> index, event |-> None]
       ELSE IF Shr(byte, 4) = 14
       THEN [next_count |-> 2, ch |-> (byte % 16) * Pow(2, 12),
             start_index |-> index, event |-> None]
       ELSE IF Shr(byte, 5) = 6
       THEN [next_count |-> 1, ch |-> (byte % 32) * Pow(2, 6),
             start_index |-> index, event |-> None]
       ELSE [next_count |-> 0, ch |-> c, start_index |-> index,
             event |-> Some(Wrong(index, index))]
  ELSE IF Shr(byte, 6) = 2
       THEN LET n == nc - 1
                v == c + (byte % 64) * Pow(2, n * 6)
            IN [next_count |-> n, ch |-> v, start_index |-> start,
                event |-> IF n = 0
                          THEN IF IsSome(CharFromU32(v))
                               THEN Some(Correct(v, start, index))
                               ELSE Some(Wrong(start, index))
                          ELSE None]
       ELSE [next_count |-> 0, ch |-> c, start_index |-> start,
             event |-> Some(Wrong(start, index))]

\* The closures callers give as filter_fn: those of test_exclude_named
\* ("ExcludeLt" leaves '<' alone, "AposDecimal" replaces '\'' by Decimal "39",
\* both over SpecialCharsAndNonASCII) and "Utf8Name", which replaces '<' by a
\* Named entity whose name is the two UTF-8 bytes of U+00E9.
UserFilters == {"ExcludeLt", "AposDecimal", "Utf8Name"}

\* filter_fn(&ch, encode_type): charset.filter of encode, or a caller's closure
filter_fn(cs, c, t) ==
  CASE cs = "ExcludeLt" ->
         IF c = B_LT THEN <<FALSE, None>>
         ELSE filter("SpecialCharsAndNonASCII", c, ET_Named)
    [] cs = "AposDecimal" ->
         IF c = B_APOS THEN <<TRUE, Some(<<"Decimal", <<51, 57>> >>)>>
         ELSE filter("SpecialCharsAndNonASCII", c, t)
    [] cs = "Utf8Name" ->
         IF c = B_LT THEN <<TRUE, Some(<<"Named", <<195, 169>> >>)>>
         ELSE <<FALSE, None>>
    [] OTHER -> filter(cs, c, t)

\* the bit of the form an entity type answers to
BitOf(entity_type) ==
  CASE entity_type = "Named" -> ET_Named
    [] entity_type = "Hex" -> ET_Hex
    [] entity_type = "Decimal" -> ET_Decimal

\* the closure of encode_with taking the classifier's entity only when the
\* form has its type, and the entity of encode_char otherwise
encode_with_handle_FormOnly(ents, ev, t, cs) ==
  IF ev.kind = "Correct"
  THEN LET r == filter_fn(cs, ev.ch, t)
           need_encode == r[1]
           maybe_entity == r[2]
       IN IF need_encode
          THEN IF IsSome(maybe_entity) /\ HasBit(t, BitOf(Unwrap(maybe_entity)[1]))
               THEN Append(ents, <<ev.range, CharEntity(Unwrap(maybe_entity)[1],
                                                         Unwrap(maybe_entity)[2])>>)
               ELSE IF IsSome(encode_char(ev.ch, t))
               THEN Append(ents, <<ev.range, Unwrap(encode_char(ev.ch, t))>>)
               ELSE ents
          ELSE ents
  ELSE ents

\* the closure of encode_with: the substitution list after the event
encode_with_handle(ents, ev, t, cs) ==
  IF ev.kind = "Correct"
  THEN LET r == filter_fn(cs, ev.ch, t)
           need_encode == r[1]
           maybe_entity == r[2]
       IN IF need_encode
          THEN IF IsSome(maybe_entity)
               THEN Append(ents, <<ev.range, CharEntity(Unwrap(maybe_entity)[1],
                                                         Unwrap(maybe_entity)[2])>>)
               ELSE IF IsSome(encode_char(ev.ch, t))
               THEN Append(ents, <<ev.range, Unwrap(encode_char(ev.ch, t))>>)
               ELSE ents
          ELSE ents
  ELSE ents

\* encode_with from the byte index i on, the loop of loop_utf8_bytes run to
\* its end: the substitution list
RECURSIVE encode_with_from(_, _, _, _, _, _, _, _)
encode_with_from(bytes, t, cs, i, nc, c, start, ents) ==
  IF i >= Len(bytes) THEN ents
  ELSE LET r == loop_utf8_bytes(nc, c, start, i, At(bytes, i))
       IN encode_with_from(bytes, t, cs, i + 1, r.next_count, r.ch,
                           r.start_index,
                           IF IsSome(r.event)
                           THEN encode_with_handle(ents, Unwrap(r.event), t, cs)
                           ELSE ents)

\* encode_with(content, encode_type, charset): the substitution list
encode_with(bytes, t, cs) == encode_with_from(bytes, t, cs, 0, 0, 0, 0, <<>>)

\* the closure of encode_with_to: the buffer after the event
encode_with_to_handle(buf, bytes, ev, t, cs) ==
  LET raw == Slice(bytes, ev.range[1], ev.range[2] + 1) IN
  IF ev.kind = "Correct"
  THEN LET r == filter_fn(cs, ev.ch, t)
           need_encode == r[1]
           maybe_entity == r[2]
       IN IF need_encode /\ IsSome(maybe_entity)
          THEN buf \o write_bytes(CharEntity(Unwrap(maybe_entity)[1],
                                             Unwrap(maybe_entity)[2]))
          ELSE IF need_encode /\ IsSome(encode_char(ev.ch, t))
          THEN buf \o write_bytes(Unwrap(encode_char(ev.ch, t)))
          ELSE buf \o raw
  ELSE buf \o raw

----------------------------------------------------------------------------
(* The views: IBytesTrait and the byte iterator.                           *)

\* a substitution is <<range, item>>, range = <<start, end>> inclusive; the
\* item of an EncodedData is a CharEntity, of a DecodedData (char, bytes)
IsCharEntity(item) == "entity_type" \in DOMAIN item

Decoded(c) == [ch |-> c, bytes |-> char_to_utf8_bytes(c)]

\* IBytesTrait::bytes_len
bytes_len(item) ==
  IF IsCharEntity(item) THEN 2 + prefix_len(item) + Len(item.entity_data)
  ELSE Len(item.bytes)

\* IBytesTrait::byte: Some(byte), None, or Some("panic") for unreachable!()
byte(item, index) ==
  IF IsCharEntity(item)
  THEN IF index > prefix_len(item)
       THEN LET cur_index == index - prefix_len(item) - 1
            IN IF cur_index < Len(item.entity_data)
               THEN Some(At(item.entity_data, cur_index))
               ELSE IF cur_index = Len(item.entity_data) THEN Some(B_SEMI)
               ELSE None
       ELSE IF index = 0 THEN Some(B_AMP)
       ELSE IF prefix_len(item) = 1 THEN Some(B_HASH)
       ELSE IF prefix_len(item) = 2
            THEN IF index = 1 THEN Some(B_HASH) ELSE Some(B_x)
       ELSE Some("panic")
  ELSE IF index < Len(item.bytes) THEN Some(At(item.bytes, index)) ELSE None

\* the source index after a substitution, without the + 1
AfterEntity_AtEnd(range) == range[2]

\* cur_entity.0.end() + 1: the source index after a substitution
AfterEntity(range) == range[2] + 1

\* gen_into_iter forgetting the start of the first substitution
gen_into_iter_NoNextEntity(bytes, ents) ==
  [byte_index |-> 0,
   total_bytes |-> Len(bytes),
   entity_index |-> 0,
   total_entities |-> Len(ents),
   only_bytes |-> Len(ents) = 0,
   byte_index_of_next_entity |-> None,
   byte_index_entity_looped |-> 0]

\* gen_into_iter taking the last source index for the number of bytes
gen_into_iter_ShortTotal(bytes, ents) ==
  [byte_index |-> 0,
   total_bytes |-> IF Len(bytes) = 0 THEN 0 ELSE Len(bytes) - 1,
   entity_index |-> 0,
   total_entities |-> Len(ents),
   only_bytes |-> Len(ents) = 0,
   byte_index_of_next_entity |->
     IF Len(ents) = 0 THEN None ELSE Some(At(ents, 0)[1][1]),
   byte_index_entity_looped |-> 0]

\* gen_into_iter
gen_into_iter(bytes, ents) ==
  [byte_index |-> 0,
   total_bytes |-> Len(bytes),
   entity_index |-> 0,
   total_entities |-> Len(ents),
   only_bytes |-> Len(ents) = 0,
   byte_index_of_next_entity |->
     IF Len(ents) = 0 THEN None ELSE Some(At(ents, 0)[1][1]),
   byte_index_entity_looped |-> 0]

\* DataIter::next: the iterator after the call and the item returned
DataIterNext(it, bytes, ents) ==
  LET cur_byte_index == it.byte_index
      looped_index == it.byte_index_entity_looped
      plain == [it |-> [it EXCEPT !.byte_index = cur_byte_index + 1],
                item |-> Some(<<At(bytes, cur_byte_index), None>>)]
  IN
  IF cur_byte_index < it.total_bytes
  THEN IF it.only_bytes THEN plain
       ELSE IF looped_index = 0
               /\ cur_byte_index # Unwrap(it.byte_index_of_next_entity)
       THEN plain
       ELSE LET cur_entity == At(ents, it.entity_index)
                cur_byte == Unwrap(byte(cur_entity[2], looped_index))
                entity_position == Some(<<it.entity_index, looped_index>>)
            IN IF looped_index = bytes_len(cur_entity[2]) - 1
               THEN [it |-> [it EXCEPT
                        !.byte_index_entity_looped = 0,
                        !.entity_index = it.entity_index + 1,
                        !.byte_index = AfterEntity(cur_entity[1]),
                        !.byte_index_of_next_entity =
                           IF it.entity_index + 1 < it.total_entities
                           THEN Some(At(ents, it.entity_index + 1)[1][1])
                           ELSE it.byte_index_of_next_entity,
                        !.only_bytes =
                           ~(it.entity_index + 1 < it.total_entities)],
                     item |-> Some(<<cur_byte, entity_position>>)]
               ELSE [it |-> [it EXCEPT
                        !.byte_index_entity_looped = looped_index + 1],
                     item |-> Some(<<cur_byte, entity_position>>)]
  ELSE [it |-> it, item |-> None]

\* value.into_iter().map(|(byte, _)| *byte).collect()
RECURSIVE Collect(_, _, _)
Collect(it, bytes, ents) ==
  LET r == DataIterNext(it, bytes, ents)
  IN IF r.item = None THEN <<>>
     ELSE <<Unwrap(r.item)[1]>> \o Collect(r.it, bytes, ents)

\* ICodedDataTrait::to_bytes of the view (inner_bytes, entities)
to_bytes(bytes, ents) == Collect(gen_into_iter(bytes, ents), bytes, ents)

\* bytes.get(index)
Get(bytes, index) == IF index < Len(bytes) THEN Some(At(bytes, index)) ELSE None

\* the for loop of call_trait_method_bytes_len from the k-th substitution on:
\* len and start_index after it
RECURSIVE bytes_len_loop(_, _, _, _)
bytes_len_loop(ents, k, start, len) ==
  IF k > Len(ents) THEN [len |-> len, start_index |-> start]
  ELSE bytes_len_loop(ents, k + 1, ents[k][1][2] + 1,
                      len + (ents[k][1][1] - start) + bytes_len(ents[k][2]))

\* call_trait_method_bytes_len without the bytes after the last substitution
call_trait_method_bytes_len_NoTail(bytes, ents) ==
  IF ents = <<>> THEN Len(bytes)
  ELSE bytes_len_loop(ents, 1, 0, 0).len

\* call_trait_method_bytes_len: bytes_len() of a view
call_trait_method_bytes_len(bytes, ents) ==
  IF ents = <<>> THEN Len(bytes)
  ELSE LET r == bytes_len_loop(ents, 1, 0, 0)
       IN r.len + (Len(bytes) - r.start_index)

\* the for loop of call_trait_method_byte from the k-th substitution on
RECURSIVE byte_loop(_, _, _, _, _)
byte_loop(bytes, ents, k, prev_start_byte_index, index) ==
  IF k > Len(ents) THEN Get(bytes, prev_start_byte_index + index)
  ELSE LET start_byte_index == ents[k][1][1]
           cur_index == prev_start_byte_index + index
           entity_len == bytes_len(ents[k][2])
           cur_entity_index == cur_index - start_byte_index
       IN IF cur_index < start_byte_index THEN Get(bytes, cur_index)
          ELSE IF cur_entity_index < entity_len
          THEN byte(ents[k][2], cur_entity_index)
          ELSE byte_loop(bytes, ents, k + 1, ents[k][1][2] + 1,
                         cur_entity_index - entity_len)

\* call_trait_method_byte: byte(index) of a view
call_trait_method_byte(bytes, ents, index) ==
  IF ents = <<>> THEN Get(bytes, index)
  ELSE byte_loop(bytes, ents, 1, 0, index)

\* value.into_iter().collect(): the items (byte, position in a substitution)
RECURSIVE IntoIterItems(_, _, _)
IntoIterItems(it, bytes, ents) ==
  LET r == DataIterNext(it, bytes, ents)
  IN IF r.item = None THEN <<>>
     ELSE <<Unwrap(r.item)>> \o IntoIterItems(r.it, bytes, ents)

\* into_iter() of the view, run to its end
into_iter(bytes, ents) == IntoIterItems(gen_into_iter(bytes, ents), bytes, ents)

----------------------------------------------------------------------------
(* The inputs.                                                             *)

\* the byte strings made of at most n pieces of Tokens
Inputs(Tokens, n) == {Flatten(ts) : ts \in SeqsUpTo(Tokens, n)}

\* decode: '&', ';', '#', '1', 'x' and the name "lt"; the literal inputs of
\* the tests "&#1&lt;", "abc&", "&#q123;", "&#x2192;"; and "&x;&lt;", a
\* rejected token before an accepted one
DecTokens == {<<B_AMP>>, <<B_SEMI>>, <<B_HASH>>, <<49>>, <<B_x>>, N_lt}
DecExamples == { <<38, 35, 49, 38, 108, 116, 59>>, <<97, 98, 99, 38>>,
                 <<38, 35, 113, 49, 50, 51, 59>>,
                 <<38, 35, 120, 50, 49, 57, 50, 59>>,
                 <<38, 120, 59, 38, 108, 116, 59>> }
DecInputs == Inputs(DecTokens, MaxDecTokens) \cup DecExamples

\* encode: '<', '\'', 'a', U+0100, a truncated lead byte, a stray continuation
\* byte, an invalid byte, an overlong '<', an encoded surrogate, a value above
\* 0x10FFFF, U+1F600, U+2117
EncTokens == { <<B_LT>>, <<B_APOS>>, <<97>>, <<196, 128>>, <<195>>, <<128>>, <<255>>,
               <<192, 188>>, <<237, 160, 128>>, <<244, 144, 128, 128>>,
               <<240, 159, 152, 128>>, <<226, 132, 151>> }
EncInputs == Inputs(EncTokens, MaxEncTokens)

\* numeric references: "&#" or "&#x" or "&#X", digit groups, ";"
HexTokens == { <<48>>, <<49>>, <<52, 49>>, <<100, 56>>, <<70, 102>>,
               <<48, 48, 48, 48, 48, 48>> }
DecimalTokens == { <<48>>, <<49>>, <<50>>, <<49, 49, 49, 52, 49>>,
                   <<53, 53, 50, 57, 54>>,
                   <<52, 50, 57, 52, 57, 54, 55, 51>> }
HexPayloads == Inputs(HexTokens, MaxNumTokens) \ {<<>>}
DecimalPayloads == Inputs(DecimalTokens, MaxNumTokens) \ {<<>>}
NumInputs ==
  {<<B_AMP, B_HASH>> \o p \o <<B_SEMI>> : p \in DecimalPayloads}
  \cup {<<B_AMP, B_HASH, x>> \o p \o <<B_SEMI>> :
          x \in {B_x, B_X}, p \in HexPayloads}

\* the interiors of numeric references given to Entity::decode: "#D", "#xH"
\* and "#XH", the payload of at most MaxValTokens digit groups
RefInteriors ==
  {<<B_HASH>> \o p : p \in Inputs(DecimalTokens, MaxValTokens) \ {<<>>}}
  \cup {<<B_HASH, x>> \o p :
          x \in {B_x, B_X}, p \in Inputs(HexTokens, MaxValTokens) \ {<<>>}}

\* valid UTF-8 sources: '&', ';', '<', "lt", U+2117 (named copysr), U+4E16
SrcTokens == { <<B_AMP>>, <<B_SEMI>>, <<B_LT>>, N_lt,
               char_to_utf8_bytes(8471), char_to_utf8_bytes(19990) }
SrcInputs == Inputs(SrcTokens, MaxSrcTokens)

\* what the caller's buffer holds before a call of encode_to or decode_to
Data0 == {<<>>, <<122>>}

----------------------------------------------------------------------------
(* The calls.  A call runs its loop one iteration per step.                *)

\* the tables lazy_static! declares
Tables == {"HTML_BYTES", "SPECIAL_BYTES", "NORMAL_NAME_ENTITY_BYTE"}

\* HashMap::with_capacity(n): a map without entries
with_capacity == <<>>

\* no thread has used a table
InitThreading ==
  /\ once = [t \in Tables |-> "Incomplete"]
  /\ statics = [t \in Tables |-> with_capacity]
  /\ runs = [t \in Tables |-> 0]

\* the state the calls of the codec leave alone, as it is before any of them:
\* the bytes of a view are Cow::from(content), borrowed from the caller
InitRest ==
  /\ cow = "Borrowed"
  /\ events = <<>>
  /\ handle = "encode_with"
  /\ iter = None
  /\ calls = 0
  /\ yielded = 0
  /\ InitThreading
  /\ threads = <<>>

InitWith(start, inputs, types, sets, bufs) ==
  /\ InitRest
  /\ pc = start
  /\ content \in inputs
  /\ source = content
  /\ encode_type \in types
  /\ charset \in sets
  /\ data0 \in bufs
  /\ data = data0
  /\ idx = 0
  /\ next_count = 0
  /\ ch = 0
  /\ start_index = 0
  /\ is_in_entity = FALSE
  /\ entities = <<>>
  /\ errors = <<>>
  /\ table = ENTITIES
  /\ ret = None

\* an iteration of the loop_utf8_bytes loop under encode_with
EncodeWithStep ==
  /\ pc = "encode_with"
  /\ idx < Len(content)
  /\ LET r == loop_utf8_bytes(next_count, ch, start_index, idx, At(content, idx))
     IN /\ next_count' = r.next_count
        /\ ch' = r.ch
        /\ start_index' = r.start_index
        /\ entities' = IF IsSome(r.event)
                       THEN encode_with_handle(entities, Unwrap(r.event),
                                               encode_type, charset)
                       ELSE entities
  /\ idx' = idx + 1
  /\ UNCHANGED <<pc, source, content, encode_type, charset, is_in_entity,
                 errors, data, data0, table,
                 ret,
                 rest>>

\* encode_with returns EncodedData { inner_bytes: content, entities }
EncodeWithReturn ==
  /\ pc = "encode_with"
  /\ idx = Len(content)
  /\ pc' = "encoded"
  /\ UNCHANGED <<source, content, encode_type, charset, idx, next_count, ch,
                 start_index, is_in_entity, entities, errors, data, data0, table,
                 ret,
                 rest>>

\* the caller calls encode_with_to on the same input
CallEncodeWithTo ==
  /\ pc = "encoded"
  /\ pc' = "encode_with_to"
  /\ idx' = 0
  /\ next_count' = 0
  /\ ch' = 0
  /\ start_index' = 0
  /\ UNCHANGED <<source, content, encode_type, charset, is_in_entity,
                 entities, errors, data, data0, table,
                 ret,
                 rest>>

\* an iteration of the loop_utf8_bytes loop under encode_with_to
EncodeWithToStep ==
  /\ pc = "encode_with_to"
  /\ idx < Len(content)
  /\ LET r == loop_utf8_bytes(next_count, ch, start_index, idx, At(content, idx))
     IN /\ next_count' = r.next_count
        /\ ch' = r.ch
        /\ start_index' = r.start_index
        /\ data' = IF IsSome(r.event)
                   THEN encode_with_to_handle(data, content, Unwrap(r.event),
                                              encode_type, charset)
                   ELSE data
  /\ idx' = idx + 1
  /\ UNCHANGED <<pc, source, content, encode_type, charset, is_in_entity,
                 entities, errors, data0, table,
                 ret,
                 rest>>

EncodeWithToReturn ==
  /\ pc = "encode_with_to"
  /\ idx = Len(content)
  /\ pc' = "encoded_to"
  /\ UNCHANGED <<source, content, encode_type, charset, idx, next_count, ch,
                 start_index, is_in_entity, entities, errors, data, data0, table,
                 ret,
                 rest>>

\* the caller decodes the bytes of the encoded view
CallDecode ==
  /\ pc = "encoded"
  /\ pc' = "decode"
  /\ content' = to_bytes(content, entities)
  /\ entities' = <<>>
  /\ errors' = <<>>
  /\ idx' = 0
  /\ start_index' = 0
  /\ is_in_entity' = FALSE
  /\ UNCHANGED <<source, encode_type, charset, next_count, ch, data, data0, table,
                 ret,
                 rest>>

\* the range of a token without its '&'
TokenRange_NoAmp(s, i) == <<s, i>>

\* start_index - 1..=idx: the range of a token, '&' to ';' inclusive
TokenRange(s, i) == <<s - 1, i>>

\* start_index - 1..=start_index - 1: the range of the '&' left open
AmpRange(s) == <<s - 1, s - 1>>

\* the arm b';' recording an error for the empty token "&;"
decode_semicolon_EmptyError(ents, errs, s, i, bytes) ==
  IF s # i /\ IsSome(EntityDecode(Slice(bytes, s, i)))
  THEN [entities |-> Append(ents, <<(<<s - 1, i>>),
                                    Decoded(Unwrap(EntityDecode(Slice(bytes, s, i))))>>),
        errors |-> errs]
  ELSE [entities |-> ents,
        errors |-> Append(errs, <<(<<s - 1, i>>), "Entity::decode">>)]

\* the arm b';' of decode: the substitutions and the errors after it
decode_semicolon(ents, errs, s, i, bytes) ==
  IF s # i
  THEN LET decode_result == EntityDecode(Slice(bytes, s, i))
       IN IF IsSome(decode_result)
          THEN [entities |-> Append(ents, <<TokenRange(s, i),
                                            Decoded(Unwrap(decode_result))>>),
                errors |-> errs]
          ELSE [entities |-> ents,
                errors |-> Append(errs, <<TokenRange(s, i), "Entity::decode">>)]
  ELSE [entities |-> ents, errors |-> errs]

\* the arm b'&' restarting the token at the '&' itself
decode_ampersand_AtAmp(errs, s, i) ==
  [errors |-> Append(errs, <<(<<s - 1, s - 1>>),
                             "Unencoded html entity characters '&'.">>),
   start_index |-> i]

\* the arm b'&' of decode: the errors and start_index after it
decode_ampersand(errs, s, i) ==
  [errors |-> Append(errs, <<AmpRange(s),
                             "Unencoded html entity characters '&'.">>),
   start_index |-> i + 1]

\* an iteration of the loop of decode
DecodeStep ==
  /\ pc = "decode"
  /\ idx < Len(content)
  /\ LET b == At(content, idx) IN
     IF ~is_in_entity
     THEN IF b = B_AMP
          THEN /\ is_in_entity' = TRUE
               /\ start_index' = idx + 1
               /\ UNCHANGED <<entities, errors>>
          ELSE UNCHANGED <<is_in_entity, start_index, entities, errors>>
     ELSE IF b = B_SEMI
          THEN LET r == decode_semicolon(entities, errors, start_index, idx,
                                         content)
               IN /\ entities' = r.entities
                  /\ errors' = r.errors
                  /\ is_in_entity' = FALSE
                  /\ UNCHANGED start_index
          ELSE IF b = B_AMP
          THEN LET r == decode_ampersand(errors, start_index, idx)
               IN /\ errors' = r.errors
                  /\ start_index' = r.start_index
                  /\ UNCHANGED <<is_in_entity, entities>>
          ELSE UNCHANGED <<is_in_entity, start_index, entities, errors>>
  /\ idx' = idx + 1
  /\ UNCHANGED <<pc, source, content, encode_type, charset, next_count, ch,
                 data, data0, table,
                 ret,
                 rest>>

\* decode returns DecodedData { inner_bytes: content, entities, errors }
DecodeReturn ==
  /\ pc = "decode"
  /\ idx = Len(content)
  /\ pc' = "decoded"
  /\ UNCHANGED <<source, content, encode_type, charset, idx, next_count, ch,
                 start_index, is_in_entity, entities, errors, data, data0, table,
                 ret,
                 rest>>

\* the caller calls decode_to on the same input
CallDecodeTo ==
  /\ pc = "decoded"
  /\ pc' = "decode_to"
  /\ idx' = 0
  /\ start_index' = 0
  /\ is_in_entity' = FALSE
  /\ UNCHANGED <<source, content, encode_type, charset, next_count, ch,
                 entities, errors, data, data0, table,
                 ret,
                 rest>>

\* an iteration of the loop of decode_to
DecodeToStep ==
  /\ pc = "decode_to"
  /\ idx < Len(content)
  /\ LET b == At(content, idx) IN
     IF ~is_in_entity
     THEN IF b = B_AMP
          THEN /\ is_in_entity' = TRUE
               /\ start_index' = idx + 1
               /\ UNCHANGED data
          ELSE /\ data' = Append(data, b)
               /\ UNCHANGED <<is_in_entity, start_index>>
     ELSE IF b = B_SEMI
          THEN /\ data' =
                    IF start_index # idx
                       /\ IsSome(EntityDecode(Slice(content, start_index, idx)))
                    THEN data \o char_to_utf8_bytes(
                           Unwrap(EntityDecode(Slice(content, start_index, idx))))
                    ELSE data \o Slice(content, start_index - 1, idx + 1)
               /\ is_in_entity' = FALSE
               /\ UNCHANGED start_index
          ELSE IF b = B_AMP
          THEN /\ data' = data \o Slice(content, start_index - 1, idx)
               /\ start_index' = idx + 1
               /\ UNCHANGED is_in_entity
          ELSE UNCHANGED <<is_in_entity, start_index, data>>
  /\ idx' = idx + 1
  /\ UNCHANGED <<pc, source, content, encode_type, charset, next_count, ch,
                 entities, errors, data0, table,
                 ret,
                 rest>>

\* decode_to without the code after its loop
DecodeToReturn_NoTail ==
  /\ pc = "decode_to"
  /\ idx = Len(content)
  /\ pc' = "decoded_to"
  /\ UNCHANGED <<source, content, encode_type, charset, idx, next_count, ch,
                 start_index, is_in_entity, entities, errors, data, data0, table,
                 ret,
                 rest>>

\* after the loop of decode_to: the open entity is appended
DecodeToReturn ==
  /\ pc = "decode_to"
  /\ idx = Len(content)
  /\ pc' = "decoded_to"
  /\ data' = IF is_in_entity
             THEN data \o SliceFrom(content, start_index - 1)
             ELSE data
  /\ UNCHANGED <<source, content, encode_type, charset, idx, next_count, ch,
                 start_index, is_in_entity, entities, errors, data0, table,
                 ret,
                 rest>>

\* the caller's characters: '&', ';', '#', '1', "lt" and U+00E9, two bytes in
\* UTF-8; the example "a&lt;b" of the documentation; "&lt;&#&lt;", an
\* entity followed by a token whose first '&' is dropped; and a token of
\* U+016C and 't', whose low bytes are "lt"
CharTokens == {<<B_AMP>>, <<B_SEMI>>, <<B_HASH>>, <<49>>, N_lt, <<233>>}
CharExamples == { <<97, 38, 108, 116, 59, 98>>,
                  <<38, 108, 116, 59, 38, 35, 38, 108, 116, 59>>,
                  <<38, 364, 116, 59>> }
CharInputs == Inputs(CharTokens, MaxCharTokens) \cup CharExamples

\* the UTF-8 bytes of a list of characters
Utf8(chars) == Flatten([k \in 1..Len(chars) |-> char_to_utf8_bytes(chars[k])])

\* tr_chars_to_utf8_bytes casting every character to a byte
tr_chars_to_utf8_bytes_Lossy(chars) ==
  Some([k \in 1..Len(chars) |-> chars[k] % 256])

\* tr_chars_to_utf8_bytes: the characters as bytes, None as soon as one of
\* them takes more than one byte
tr_chars_to_utf8_bytes(chars) ==
  IF \A k \in 1..Len(chars) : Len(char_to_utf8_bytes(chars[k])) = 1
  THEN Some([k \in 1..Len(chars) |-> chars[k] % 256])
  ELSE None

\* the arm ';' of decode_chars and decode_chars_to up to the recognizer: the
\* character of the token chars[s..i], None when there is none
decode_chars_entity(chars, s, i) ==
  IF s # i
  THEN LET bytes == tr_chars_to_utf8_bytes(Slice(chars, s, i))
       IN IF IsSome(bytes) THEN EntityDecode(Unwrap(bytes)) ELSE None
  ELSE None

\* the arm '&' inside a token keeping the first '&'
decode_chars_ampersand_KeepStart(buf, chars, s, i) ==
  [data |-> buf \o Slice(chars, s - 1, i), start_index |-> s]

\* the arm '&' of decode_chars_to inside a token: the buffer and start_index
decode_chars_ampersand(buf, chars, s, i) ==
  [data |-> buf \o Slice(chars, s - 1, i), start_index |-> i + 1]

\* Cow::Owned(data) and Cow::from(chars)
Owned(chars) == [kind |-> "Owned", chars |-> chars]
Borrowed(chars) == [kind |-> "Borrowed", chars |-> chars]

\* the caller calls decode_chars on its characters
CallDecodeChars ==
  /\ pc = "decoded_to"
  /\ pc' = "decode_chars"
  /\ content' = source
  /\ data' = <<>>
  /\ idx' = 0
  /\ start_index' = 0
  /\ is_in_entity' = FALSE
  /\ UNCHANGED <<source, encode_type, charset, next_count, ch, entities,
                 errors, data0, table, ret,
                 rest>>

\* an iteration of the loop of decode_chars; at the first entity it calls
\* decode_chars_to on the characters left, or returns when none is left
DecodeCharsStep ==
  /\ pc = "decode_chars"
  /\ idx < Len(content)
  /\ LET c == At(content, idx)
         found == decode_chars_entity(content, start_index, idx)
         prev == IF start_index > 1 THEN Slice(content, 0, start_index - 1)
                 ELSE <<>>
     IN
     IF is_in_entity /\ c = B_SEMI /\ IsSome(found)
     THEN /\ data' = Append(data \o prev, Unwrap(found))
          /\ IF idx + 1 # Len(content)
             THEN /\ pc' = "decode_chars.decode_chars_to"
                  /\ content' = SliceFrom(content, idx + 1)
                  /\ idx' = 0
                  /\ start_index' = 0
                  /\ is_in_entity' = FALSE
                  /\ UNCHANGED ret
             ELSE /\ pc' = "decoded_chars"
                  /\ ret' = Some(Owned(data'))
                  /\ UNCHANGED <<content, idx, start_index, is_in_entity>>
     ELSE /\ idx' = idx + 1
          /\ IF ~is_in_entity
             THEN IF c = B_AMP
                  THEN /\ is_in_entity' = TRUE
                       /\ start_index' = idx + 1
                  ELSE UNCHANGED <<is_in_entity, start_index>>
             ELSE IF c = B_SEMI
                  THEN /\ is_in_entity' = FALSE
                       /\ UNCHANGED start_index
                  ELSE IF c = B_AMP
                  THEN /\ start_index' = idx + 1
                       /\ UNCHANGED is_in_entity
                  ELSE UNCHANGED <<is_in_entity, start_index>>
          /\ UNCHANGED <<pc, content, data, ret>>
  /\ UNCHANGED <<source, encode_type, charset, next_count, ch, entities,
                 errors, data0, table,
                 rest>>

\* decode_chars found no entity: it returns the caller's characters
DecodeCharsReturn ==
  /\ pc = "decode_chars"
  /\ idx = Len(content)
  /\ pc' = "decoded_chars"
  /\ ret' = Some(Borrowed(content))
  /\ UNCHANGED <<source, content, encode_type, charset, idx, next_count, ch,
                 start_index, is_in_entity, entities, errors, data, data0,
                 table,
                 rest>>

\* the caller calls decode_chars_to on its characters and its buffer
CallDecodeCharsTo ==
  /\ pc = "decoded_chars"
  /\ pc' = "decode_chars_to"
  /\ content' = source
  /\ data' = data0
  /\ idx' = 0
  /\ start_index' = 0
  /\ is_in_entity' = FALSE
  /\ UNCHANGED <<source, encode_type, charset, next_count, ch, entities,
                 errors, data0, table, ret,
                 rest>>

\* an iteration of the loop of decode_chars_to, called by the caller or by
\* decode_chars
DecodeCharsToStep ==
  /\ pc \in {"decode_chars_to", "decode_chars.decode_chars_to"}
  /\ idx < Len(content)
  /\ LET c == At(content, idx) IN
     IF ~is_in_entity
     THEN IF c = B_AMP
          THEN /\ is_in_entity' = TRUE
               /\ start_index' = idx + 1
               /\ UNCHANGED data
          ELSE /\ data' = Append(data, c)
               /\ UNCHANGED <<is_in_entity, start_index>>
     ELSE IF c = B_SEMI
          THEN /\ data' =
                    IF IsSome(decode_chars_entity(content, start_index, idx))
                    THEN Append(data, Unwrap(decode_chars_entity(
                                               content, start_index, idx)))
                    ELSE data \o Slice(content, start_index - 1, idx + 1)
               /\ is_in_entity' = FALSE
               /\ UNCHANGED start_index
          ELSE IF c = B_AMP
          THEN LET r == decode_chars_ampersand(data, content, start_index, idx)
               IN /\ data' = r.data
                  /\ start_index' = r.start_index
                  /\ UNCHANGED is_in_entity
          ELSE UNCHANGED <<is_in_entity, start_index, data>>
  /\ idx' = idx + 1
  /\ UNCHANGED <<pc, source, content, encode_type, charset, next_count, ch,
                 entities, errors, data0, table, ret,
                 rest>>

\* after the loop of decode_chars_to: the open entity is appended; under
\* decode_chars the buffer is then returned as Cow::Owned
DecodeCharsToReturn ==
  /\ pc \in {"decode_chars_to", "decode_chars.decode_chars_to"}
  /\ idx = Len(content)
  /\ data' = IF is_in_entity
             THEN data \o SliceFrom(content, start_index - 1)
             ELSE data
  /\ IF pc = "decode_chars_to"
     THEN /\ pc' = "decoded_chars_to"
          /\ UNCHANGED ret
     ELSE /\ pc' = "decoded_chars"
          /\ ret' = Some(Owned(data'))
  /\ UNCHANGED <<source, content, encode_type, charset, idx, next_count, ch,
                 start_index, is_in_entity, entities, errors, data0, table,
                 rest>>

\* tables of (name, code) sorted by code ascending, of at most MaxTableLen
\* entries, over three names and three codes
TableRecords == {<<n, c>> : n \in {N_lt, N_LT, N_gt}, c \in {60, 62, 160}}
SortedTables ==
  {t \in SeqsUpTo(TableRecords, MaxTableLen) :
     \A k \in 1..(Len(t) - 1) : t[k][2] <= t[k + 1][2]}

\* the characters given to encode_char, filter and contains: 0..300, the
\* named U+2117, U+4E16, the ends of the surrogate gap and char::MAX
CharCodes == (0..300) \cup {8471, 19990, 55295, 57344, 1114111}

\* the state before a call on one character
InitOn(chars, types, sets, tables) ==
  /\ InitRest
  /\ pc = "char"
  /\ ch \in chars
  /\ encode_type \in types
  /\ charset \in sets
  /\ table \in tables
  /\ source = <<>>
  /\ content = <<>>
  /\ data0 = <<>>
  /\ data = <<>>
  /\ idx = 0
  /\ next_count = 0
  /\ start_index = 0
  /\ is_in_entity = FALSE
  /\ entities = <<>>
  /\ errors = <<>>
  /\ ret = None

\* encode_char(&ch, &encode_type); the binary search may land on any entry
\* of the code
CallEncodeChar ==
  /\ pc = "char"
  /\ pc' = "encode_char"
  /\ \E found \in binary_search_by_key(ch) :
       ret' = Some(encode_char_found(ch, encode_type, found))
  /\ UNCHANGED <<source, content, encode_type, charset, idx, next_count, ch,
                 start_index, is_in_entity, entities, errors, data, data0,
                 table,
                 rest>>

\* charset.filter(&ch, &encode_type)
CallFilter ==
  /\ pc = "char"
  /\ pc' = "filter"
  /\ ret' = Some(filter(charset, ch, encode_type))
  /\ UNCHANGED <<source, content, encode_type, charset, idx, next_count, ch,
                 start_index, is_in_entity, entities, errors, data, data0,
                 table,
                 rest>>

\* charset.contains(&ch)
CallContains ==
  /\ pc = "char"
  /\ pc' = "contains"
  /\ ret' = Some(contains(charset, ch))
  /\ UNCHANGED <<source, content, encode_type, charset, idx, next_count, ch,
                 start_index, is_in_entity, entities, errors, data, data0,
                 table,
                 rest>>

\* the byte strings given to Entity::decode: at most MaxRecTokens pieces out
\* of '#', 'x', 'X', '1', 'f', 'g', '-', the byte E9 and the names lt, nbsp
\* (hand table), copysr and Tab (name-ordered table only)
RecTokens == { <<B_HASH>>, <<B_x>>, <<B_X>>, <<49>>, <<102>>, <<103>>, <<45>>,
               <<233>>, N_lt, N_nbsp, N_copysr, N_Tab }
RecInputs == Inputs(RecTokens, MaxRecTokens)

\* Entity::decode(&content)
CallEntityDecode ==
  /\ pc = "bytes"
  /\ pc' = "Entity::decode"
  /\ ret' = Some(EntityDecode(content))
  /\ UNCHANGED <<source, content, encode_type, charset, idx, next_count, ch,
                 start_index, is_in_entity, entities, errors, data, data0,
                 table,
                 rest>>

\* the byte strings given to loop_utf8_bytes: at most MaxScanTokens pieces out
\* of '<', a lead byte of two, a continuation byte, an invalid byte, U+0100,
\* the first two bytes of U+2117, U+1F600, a value above 0x10FFFF and an
\* encoded surrogate
ScanTokens == { <<B_LT>>, <<195>>, <<128>>, <<255>>, <<196, 128>>, <<226, 132>>,
                <<240, 159, 152, 128>>, <<244, 144, 128, 128>>,
                <<237, 160, 128>> }
ScanInputs == Inputs(ScanTokens, MaxScanTokens)

\* The handlers given to loop_utf8_bytes, by what they return: the closures
\* of encode_with and encode_with_to return Ok(()) for every event, the
\* closure of bytes_to_chars returns Err for a Wrong event.
Handlers == {"encode_with", "bytes_to_chars"}

\* handle(result, range): TRUE for Ok(()), FALSE for Err
HandleReturnsOk(h, ev) == h = "encode_with" \/ ev.kind = "Correct"

\* the state before a call of loop_utf8_bytes(content, handle)
InitScan ==
  /\ pc = "loop_utf8_bytes"
  /\ content \in ScanInputs
  /\ handle \in Handlers
  /\ source = content
  /\ encode_type = ET_Named
  /\ charset = "Html"
  /\ data0 = <<>>
  /\ data = <<>>
  /\ idx = 0
  /\ next_count = 0
  /\ ch = 0
  /\ start_index = 0
  /\ is_in_entity = FALSE
  /\ entities = <<>>
  /\ errors = <<>>
  /\ table = ENTITIES
  /\ ret = None
  /\ cow = "Borrowed"
  /\ events = <<>>
  /\ iter = None
  /\ calls = 0
  /\ yielded = 0
  /\ InitThreading
  /\ threads = <<>>

\* an iteration of the for loop of loop_utf8_bytes: the event, if any, is
\* handed to the handler; the Err of a handler for a Wrong event is returned
\* at once (handle(..)?), its result for a Correct event is dropped
LoopUtf8BytesStep ==
  /\ pc = "loop_utf8_bytes"
  /\ idx < Len(content)
  /\ LET r == loop_utf8_bytes(next_count, ch, start_index, idx, At(content, idx))
     IN /\ next_count' = r.next_count
        /\ ch' = r.ch
        /\ start_index' = r.start_index
        /\ events' = events \o r.event
        /\ IF IsSome(r.event) /\ Unwrap(r.event).kind = "Wrong"
              /\ ~HandleReturnsOk(handle, Unwrap(r.event))
           THEN /\ pc' = "loop_utf8_bytes.return"
                /\ ret' = Some("Err")
                /\ UNCHANGED idx
           ELSE /\ idx' = idx + 1
                /\ UNCHANGED <<pc, ret>>
  /\ UNCHANGED <<source, content, encode_type, charset, is_in_entity,
                 entities, errors, data, data0, table, cow, handle, iteration,
                 threading>>

\* the for loop is over: loop_utf8_bytes returns Ok(())
LoopUtf8BytesReturn ==
  /\ pc = "loop_utf8_bytes"
  /\ idx = Len(content)
  /\ pc' = "loop_utf8_bytes.return"
  /\ ret' = Some("Ok")
  /\ UNCHANGED <<source, content, encode_type, charset, idx, next_count, ch,
                 start_index, is_in_entity, entities, errors, data, data0,
                 table, cow, events, handle,
                 iteration, threading>>

\* Cow::clone: a Borrowed stays Borrowed (the reference is copied), an Owned
\* is copied into a new Owned
CowClone(kind) == kind

\* to_owned of EncodedData and of DecodedData: the bytes, the kind of their
\* Cow and the substitutions after the call
to_owned(bytes, kind, ents) ==
  IF ents = <<>>
  THEN [inner_bytes |-> bytes, cow |-> CowClone(kind), entities |-> ents]
  ELSE [inner_bytes |-> to_bytes(bytes, ents), cow |-> "Owned",
        entities |-> <<>>]

\* the caller calls to_owned() on the view encode_with returned
EncodedToOwned ==
  /\ pc = "encoded"
  /\ pc' = "encoded.to_owned"
  /\ LET r == to_owned(content, cow, entities)
     IN /\ content' = r.inner_bytes
        /\ cow' = r.cow
        /\ entities' = r.entities
  /\ UNCHANGED <<source, encode_type, charset, idx, next_count, ch,
                 start_index, is_in_entity, errors, data, data0, table, ret,
                 events, handle, iteration, threading>>

\* the caller calls to_owned() on the view decode returned
DecodedToOwned ==
  /\ pc = "decoded"
  /\ pc' = "decoded.to_owned"
  /\ LET r == to_owned(content, cow, entities)
     IN /\ content' = r.inner_bytes
        /\ cow' = r.cow
        /\ entities' = r.entities
  /\ UNCHANGED <<source, encode_type, charset, idx, next_count, ch,
                 start_index, is_in_entity, errors, data, data0, table, ret,
                 events, handle, iteration, threading>>

----------------------------------------------------------------------------
(* The specifications.                                                     *)

\* encode and encode_to on any bytes
InitEnc ==
  InitWith("encode_with", EncInputs, EncodeType, CharacterSet \cup UserFilters,
           Data0)
NextEnc ==
  \/ EncodeWithStep
  \/ EncodeWithReturn
  \/ CallEncodeWithTo
  \/ EncodeWithToStep
  \/ EncodeWithToReturn
SpecEnc == InitEnc /\ [][NextEnc]_vars

\* decode and decode_to on any bytes
InitDec == InitWith("decode", DecInputs, {ET_Named}, {"Html"}, Data0)
NextDec ==
  \/ DecodeStep
  \/ DecodeReturn
  \/ CallDecodeTo
  \/ DecodeToStep
  \/ DecodeToReturn
SpecDec == InitDec /\ [][NextDec]_vars

\* decode and decode_to on numeric references
InitNum == InitWith("decode", NumInputs, {ET_Named}, {"Html"}, {<<>>})
SpecNum == InitNum /\ [][NextDec]_vars

\* encode of a valid UTF-8 string, then decode of the encoded bytes
InitRT == InitWith("encode_with", SrcInputs, EncodeType, CharacterSet, {<<>>})
NextRT ==
  \/ EncodeWithStep
  \/ EncodeWithReturn
  \/ CallDecode
  \/ DecodeStep
  \/ DecodeReturn
SpecRT == InitRT /\ [][NextRT]_vars

\* decode, decode_to, decode_chars and decode_chars_to on the same characters
InitChars ==
  /\ InitRest
  /\ pc = "decode"
  /\ source \in CharInputs
  /\ content = Utf8(source)
  /\ encode_type = ET_Named
  /\ charset = "Html"
  /\ data0 \in Data0
  /\ data = data0
  /\ idx = 0
  /\ next_count = 0
  /\ ch = 0
  /\ start_index = 0
  /\ is_in_entity = FALSE
  /\ entities = <<>>
  /\ errors = <<>>
  /\ table = ENTITIES
  /\ ret = None
NextChars ==
  \/ DecodeStep
  \/ DecodeReturn
  \/ CallDecodeTo
  \/ DecodeToStep
  \/ DecodeToReturn
  \/ CallDecodeChars
  \/ DecodeCharsStep
  \/ DecodeCharsReturn
  \/ CallDecodeCharsTo
  \/ DecodeCharsToStep
  \/ DecodeCharsToReturn
SpecChars == InitChars /\ [][NextChars]_vars

\* encode_char on one character, over the sorted tables
InitTable == InitOn({38, 60, 62, 160}, EncodeType, {"Html"}, SortedTables)
NextTable == CallEncodeChar
SpecTable == InitTable /\ [][NextTable]_vars

\* encode_char, filter and contains on one character
InitChar == InitOn(CharCodes, EncodeType, CharacterSet, {ENTITIES})
NextChar ==
  \/ CallEncodeChar
  \/ CallFilter
  \/ CallContains
SpecChar == InitChar /\ [][NextChar]_vars

\* Entity::decode on one byte string
InitRec == InitWith("bytes", RecInputs, {ET_Named}, {"Html"}, {<<>>})
NextRec == CallEntityDecode
SpecRec == InitRec /\ [][NextRec]_vars

\* encode under the character sets, on any bytes
InitSets == InitWith("encode_with", EncInputs, EncodeType, CharacterSet, {<<>>})
NextSets ==
  \/ EncodeWithStep
  \/ EncodeWithReturn
SpecSets == InitSets /\ [][NextSets]_vars

\* the views of encode and of decode of the encoded bytes: a form with a
\* fallback and a numeric form, a set of special characters, one of
\* characters above 0xFF and all characters
InitView ==
  InitWith("encode_with", SrcInputs, {ET_NamedOrHex, ET_Decimal},
           {"Html", "NonASCII", "All"}, {<<>>})
SpecView == InitView /\ [][NextRT]_vars

\* Entity::decode on the interior of a numeric reference
InitVal == InitWith("bytes", RefInteriors, {ET_Named}, {"Html"}, {<<>>})
NextVal == CallEntityDecode
SpecVal == InitVal /\ [][NextVal]_vars

\* to_owned() on the views of encode and of decode of the encoded bytes
InitOwn ==
  InitWith("encode_with", SrcInputs, {ET_NamedOrHex}, {"Html", "NonASCII"},
           {<<>>})
NextOwn ==
  \/ EncodeWithStep
  \/ EncodeWithReturn
  \/ EncodedToOwned
  \/ CallDecode
  \/ DecodeStep
  \/ DecodeReturn
  \/ DecodedToOwned
SpecOwn == InitOwn /\ [][NextOwn]_vars

\* encode_with and encode_with_to with the closures of the callers
InitUser == InitWith("encode_with", EncInputs, EncodeType, UserFilters, {<<122>>})
SpecUser == InitUser /\ [][NextEnc]_vars

\* the bytes of the views that are iterated: '&', ';', "&lt;", "&#x2117;",
\* '<', a truncated lead byte, a stray continuation byte, U+1F600
IterTokens == { <<B_AMP>>, <<B_SEMI>>, <<B_AMP>> \o N_lt \o <<B_SEMI>>,
                <<B_AMP, B_HASH, B_x, 50, 49, 49, 55, B_SEMI>>,
                <<B_LT>>, <<195>>, <<128>>, <<240, 159, 152, 128>> }
IterInputs == Inputs(IterTokens, MaxIterTokens)
IterSets == {"Html", "NonASCII", "All"}

\* the state before encode or decode of the bytes of a caller
InitIter ==
  \/ InitWith("encode_with", IterInputs, EncodeType, IterSets, {<<>>})
  \/ InitWith("decode", IterInputs, {ET_Named}, {"Html"}, {<<>>})

\* the else branch of CharEntity::byte with a prefix_len other than 1 or 2:
\* unreachable!()
byte_unreachable(item, index) ==
  /\ IsCharEntity(item)
  /\ ~(index > prefix_len(item))
  /\ index # 0
  /\ prefix_len(item) \notin {1, 2}

\* the call entity.byte(cur_entity_index) that call_trait_method_byte makes
\* from the k-th substitution on, as Some(<<k, cur_entity_index>>), if any
RECURSIVE byte_loop_entity(_, _, _, _)
byte_loop_entity(ents, k, prev_start_byte_index, index) ==
  IF k > Len(ents) THEN None
  ELSE LET start_byte_index == ents[k][1][1]
           cur_index == prev_start_byte_index + index
           entity_len == bytes_len(ents[k][2])
           cur_entity_index == cur_index - start_byte_index
       IN IF cur_index < start_byte_index THEN None
          ELSE IF cur_entity_index < entity_len
          THEN Some(<<k, cur_entity_index>>)
          ELSE byte_loop_entity(ents, k + 1, ents[k][1][2] + 1,
                                cur_entity_index - entity_len)

\* call_trait_method_byte panics: its call of entity.byte is unreachable!()
call_trait_method_byte_panics(ents, index) ==
  LET c == byte_loop_entity(ents, 1, 0, index)
  IN /\ IsSome(c)
     /\ byte_unreachable(ents[Unwrap(c)[1]][2], Unwrap(c)[2])

\* DataIter::next panics: an index out of the slice, the unwrap of a None
\* byte_index_of_next_entity, the expect on a None entity byte, the
\* unreachable!() of CharEntity::byte, or bytes_len() - 1 below zero
DataIterNextPanics(it, bytes, ents) ==
  LET cur_byte_index == it.byte_index
      looped_index == it.byte_index_entity_looped
  IN
  /\ cur_byte_index < it.total_bytes
  /\ IF it.only_bytes THEN ~(cur_byte_index < Len(bytes))
     ELSE IF looped_index = 0 /\ it.byte_index_of_next_entity = None THEN TRUE
     ELSE IF looped_index = 0
             /\ cur_byte_index # Unwrap(it.byte_index_of_next_entity)
     THEN ~(cur_byte_index < Len(bytes))
     ELSE \/ ~(it.entity_index < Len(ents))
          \/ LET cur_entity == At(ents, it.entity_index)
             IN \/ byte_unreachable(cur_entity[2], looped_index)
                \/ byte(cur_entity[2], looped_index) = None
                \/ bytes_len(cur_entity[2]) = 0
                \/ /\ looped_index = bytes_len(cur_entity[2]) - 1
                   /\ it.entity_index + 1 < it.total_entities
                   /\ ~(it.entity_index + 1 < Len(ents))

\* view.into_iter() on the view encode or decode has returned
ViewIntoIter ==
  /\ pc \in {"encoded", "decoded"}
  /\ pc' = "into_iter"
  /\ iter' = Some(gen_into_iter(content, entities))
  /\ calls' = 0
  /\ yielded' = 0
  /\ UNCHANGED <<source, content, encode_type, charset, idx, next_count, ch,
                 start_index, is_in_entity, entities, errors, data, data0,
                 table, ret, cow, events, handle, threading>>

\* a call of next() on the iterator of the view
CallDataIterNext ==
  /\ pc = "into_iter"
  /\ calls < call_trait_method_bytes_len(content, entities) + MaxNextPast
  /\ IF DataIterNextPanics(Unwrap(iter), content, entities)
     THEN /\ pc' = "panic"
          /\ UNCHANGED <<ret, iteration>>
     ELSE LET r == DataIterNext(Unwrap(iter), content, entities)
          IN /\ iter' = Some(r.it)
             /\ ret' = r.item
             /\ calls' = calls + 1
             /\ yielded' = IF IsSome(r.item) THEN yielded + 1 ELSE yielded
             /\ UNCHANGED pc
  /\ UNCHANGED <<source, content, encode_type, charset, idx, next_count, ch,
                 start_index, is_in_entity, entities, errors, data, data0,
                 table, cow, events, handle, threading>>

\* a call of byte(i) on the view encode or decode has returned
CallByte ==
  /\ pc \in {"encoded", "decoded"}
  /\ \E i \in 0..(call_trait_method_bytes_len(content, entities) + ProbePast) :
       IF call_trait_method_byte_panics(entities, i)
       THEN /\ pc' = "panic"
            /\ UNCHANGED ret
       ELSE /\ pc' = "byte"
            /\ ret' = call_trait_method_byte(content, entities, i)
  /\ UNCHANGED <<source, content, encode_type, charset, idx, next_count, ch,
                 start_index, is_in_entity, entities, errors, data, data0,
                 table, rest>>

----------------------------------------------------------------------------
(* Threads.  The tables of lazy_static! are built on their first use.      *)

\* map.insert(k, v)
insert(map, k, v) ==
  [x \in DOMAIN map \cup {k} |-> IF x = k THEN v ELSE map[x]]

\* for (k, v) in from.iter() { map.insert(*k, *v); }
RECURSIVE insert_all(_, _)
insert_all(map, from) ==
  IF DOMAIN from = {} THEN map
  ELSE LET k == CHOOSE x \in DOMAIN from : TRUE
       IN insert_all(insert(map, k, from[k]),
                     [x \in DOMAIN from \ {k} |-> from[x]])

Ins(k, v) == [op |-> "insert", k |-> k, v |-> v]
Iter(t) == [op |-> "iter", k |-> t, v |-> <<>>]

\* the blocks that initialise the tables, statement by statement
Initialiser(t) ==
  CASE t = "HTML_BYTES" ->
         << Ins(B_GT, N_gt), Ins(B_LT, N_lt), Ins(B_AMP, N_amp) >>
    [] t = "SPECIAL_BYTES" ->
         << Ins(B_QUOT, N_quot), Ins(B_APOS, N_apos), Iter("HTML_BYTES") >>
    [] t = "NORMAL_NAME_ENTITY_BYTE" ->
         << Ins(N_lt, 60), Ins(N_LT, 60), Ins(N_gt, 62), Ins(N_GT, 62),
            Ins(N_amp, 38), Ins(N_AMP, 38), Ins(N_quot, 34), Ins(N_QUOT, 34),
            Ins(N_apos, 39), Ins(N_nbsp, 160) >>

\* the first use of a table not waiting for the thread that is building it
call_once_NoWait(state) ==
  CASE state = "Complete" -> "read"
    [] state = "Incomplete" -> "run"
    [] state = "Running" -> "read"

\* the dereference of a lazy_static! table, by the state of its Once: the
\* value is read when the initialiser has completed, the caller runs the
\* initialiser when no thread has started it, and waits while another thread
\* runs it
call_once(state) ==
  CASE state = "Complete" -> "read"
    [] state = "Incomplete" -> "run"
    [] state = "Running" -> "wait"

\* the calls the threads make: encode(content, encode_type, charset) and
\* Entity::decode(name) under decode
ThreadCalls ==
  { [fn |-> "encode", content |-> <<B_LT>>, t |-> ET_Named, cs |-> "Html"],
    [fn |-> "encode", content |-> <<B_APOS>>, t |-> ET_Named, cs |-> "Html"],
    [fn |-> "encode", content |-> <<B_APOS, B_AMP>>, t |-> ET_Named,
     cs |-> "SpecialChars"],
    [fn |-> "encode", content |-> <<B_LT>>, t |-> ET_Hex, cs |-> "SpecialChars"],
    [fn |-> "decode", content |-> N_lt, t |-> ET_Named, cs |-> "Html"],
    [fn |-> "decode", content |-> N_nbsp, t |-> ET_Named, cs |-> "Html"],
    [fn |-> "decode", content |-> N_copysr, t |-> ET_Named, cs |-> "Html"] }

Threads == 1..NumThreads

\* the table a call looks up
TableOf(call) ==
  IF call.fn = "decode" THEN "NORMAL_NAME_ENTITY_BYTE"
  ELSE IF call.cs = "Html" THEN "HTML_BYTES" ELSE "SPECIAL_BYTES"

\* the closure of encode_with on a character, filter_fn having returned r
encode_with_push(ents, ev, t, r) ==
  IF r[1]
  THEN IF IsSome(r[2])
       THEN Append(ents, <<ev.range, CharEntity(Unwrap(r[2])[1], Unwrap(r[2])[2])>>)
       ELSE IF IsSome(encode_char(ev.ch, t))
       THEN Append(ents, <<ev.range, Unwrap(encode_char(ev.ch, t))>>)
       ELSE ents
  ELSE ents

\* the lookup of a Named interior, NORMAL_NAME_ENTITY_BYTE being the map
DecodeNamedIn(map, bytes) ==
  IF bytes \in DOMAIN map THEN Some(map[bytes])
  ELSE IF At(bytes, 0) \in DOMAIN FIRST_LETTER_POSITION
       THEN LET se == FIRST_LETTER_POSITION[At(bytes, 0)]
                find_index == BucketPosition(se[1], se[2], bytes)
            IN IF IsSome(find_index)
               THEN Some(At(LETTER_ORDERED_ENTITIES, se[1] + Unwrap(find_index))[2])
               ELSE None
       ELSE None

\* a thread before its call: at byte i of the content, with the substitutions
\* found, the initialisers it is running (the innermost last), the values of
\* the tables it has read, and no result
NewThread(call) ==
  [call |-> call, pc |-> "call", i |-> 0, ents |-> <<>>, stack |-> <<>>,
   seen |-> {}, res |-> None]

\* the state before the threads make their calls
InitThreads ==
  /\ InitThreading
  /\ threads \in [Threads -> {NewThread(c) : c \in ThreadCalls}]
  /\ pc = "threads"
  /\ content = <<>>
  /\ source = <<>>
  /\ encode_type = ET_Named
  /\ charset = "Html"
  /\ data0 = <<>>
  /\ data = <<>>
  /\ idx = 0
  /\ next_count = 0
  /\ ch = 0
  /\ start_index = 0
  /\ is_in_entity = FALSE
  /\ entities = <<>>
  /\ errors = <<>>
  /\ table = ENTITIES
  /\ ret = None
  /\ cow = "Borrowed"
  /\ events = <<>>
  /\ handle = "encode_with"
  /\ iter = None
  /\ calls = 0
  /\ yielded = 0

\* the state of a single call, which the threads leave alone
single == <<pc, source, content, encode_type, charset, idx, next_count, ch,
            start_index, is_in_entity, entities, errors, data, data0, table,
            ret, cow, events, handle, iteration>>

\* the frame of an initialiser that starts: let mut map = HashMap::with_capacity(n)
Frame(t) == [table |-> t, map |-> with_capacity, step |-> 0]

\* a thread reads the table of its call, which is built, and goes on with
\* the call: the closure of encode_with on the next character, or the lookup
\* of Entity::decode, which ends the call
ThreadLookup(th) ==
  LET me == threads[th]
      t == TableOf(me.call)
      map == statics[t]
  IN
  /\ me.pc = "call"
  /\ me.stack = <<>>
  /\ call_once(once[t]) = "read"
  /\ threads' = [threads EXCEPT ![th] =
       IF me.call.fn = "decode"
       THEN [me EXCEPT !.seen = me.seen \cup {<<t, map>>},
                       !.res = Some(DecodeNamedIn(map, me.call.content)),
                       !.pc = "done"]
       ELSE LET c == At(me.call.content, me.i)
                ents == encode_with_push(me.ents, Correct(c, me.i, me.i),
                          me.call.t, filter_entity_set(map, me.call.t, c))
            IN [me EXCEPT !.seen = me.seen \cup {<<t, map>>},
                          !.ents = ents,
                          !.i = me.i + 1,
                          !.res = IF me.i + 1 = Len(me.call.content)
                                  THEN Some(ents) ELSE None,
                          !.pc = IF me.i + 1 = Len(me.call.content)
                                 THEN "done" ELSE "call"]]
  /\ UNCHANGED <<once, statics, runs, single>>

\* a thread is the first to use the table of its call: it starts the
\* initialiser
ThreadCallOnce(th) ==
  LET me == threads[th]
      t == TableOf(me.call)
  IN
  /\ me.pc = "call"
  /\ me.stack = <<>>
  /\ call_once(once[t]) = "run"
  /\ once' = [once EXCEPT ![t] = "Running"]
  /\ runs' = [runs EXCEPT ![t] = runs[t] + 1]
  /\ threads' = [threads EXCEPT ![th].stack = <<Frame(t)>>]
  /\ UNCHANGED <<statics, single>>

\* a statement of the initialiser a thread is running: an insert into its
\* map, or the loop over HTML_BYTES.iter(), which is a use of that table
ThreadInitialise(th) ==
  LET me == threads[th]
      n == Len(me.stack)
      f == me.stack[n]
      s == Initialiser(f.table)[f.step + 1]
  IN
  /\ me.stack # <<>>
  /\ f.step < Len(Initialiser(f.table))
  /\ IF s.op = "insert"
     THEN /\ threads' = [threads EXCEPT ![th].stack[n] =
                           [f EXCEPT !.map = insert(f.map, s.k, s.v),
                                     !.step = f.step + 1]]
          /\ UNCHANGED <<once, runs>>
     ELSE CASE call_once(once[s.k]) = "read" ->
                 /\ threads' = [threads EXCEPT ![th] =
                      [me EXCEPT !.seen = me.seen \cup {<<s.k, statics[s.k]>>},
                                 !.stack[n] =
                                    [f EXCEPT !.map = insert_all(f.map, statics[s.k]),
                                              !.step = f.step + 1]]]
                 /\ UNCHANGED <<once, runs>>
            [] call_once(once[s.k]) = "run" ->
                 /\ once' = [once EXCEPT ![s.k] = "Running"]
                 /\ runs' = [runs EXCEPT ![s.k] = runs[s.k] + 1]
                 /\ threads' = [threads EXCEPT ![th].stack =
                                  Append(me.stack, Frame(s.k))]
            [] call_once(once[s.k]) = "wait" -> FALSE
  /\ UNCHANGED <<statics, single>>

\* the initialiser a thread is running ends: its map becomes the table
ThreadInitialised(th) ==
  LET me == threads[th]
      n == Len(me.stack)
      f == me.stack[n]
  IN
  /\ me.stack # <<>>
  /\ f.step = Len(Initialiser(f.table))
  /\ statics' = [statics EXCEPT ![f.table] = f.map]
  /\ once' = [once EXCEPT ![f.table] = "Complete"]
  /\ threads' = [threads EXCEPT ![th].stack = SubSeq(me.stack, 1, n - 1)]
  /\ UNCHANGED <<runs, single>>

\* loop_utf8_bytes on any bytes, with either handler
NextScan ==
  \/ LoopUtf8BytesStep
  \/ LoopUtf8BytesReturn
SpecScan == InitScan /\ [][NextScan]_vars

\* encode, encode_to, decode and decode_to on any bytes, then next() and
\* byte(i) on the views
NextIter ==
  \/ EncodeWithStep
  \/ EncodeWithReturn
  \/ CallEncodeWithTo
  \/ EncodeWithToStep
  \/ EncodeWithToReturn
  \/ DecodeStep
  \/ DecodeReturn
  \/ CallDecodeTo
  \/ DecodeToStep
  \/ DecodeToReturn
  \/ ViewIntoIter
  \/ CallDataIterNext
  \/ CallByte
SpecIter == InitIter /\ [][NextIter]_vars

\* threads calling encode and decode at the same time, the tables not built
NextThreads ==
  \/ \E th \in Threads : ThreadLookup(th)
  \/ \E th \in Threads : ThreadCallOnce(th)
  \/ \E th \in Threads : ThreadInitialise(th)
  \/ \E th \in Threads : ThreadInitialised(th)
SpecThreads == InitThreads /\ [][NextThreads]_vars

Init == InitDec
Next == NextDec
Spec == SpecDec

----------------------------------------------------------------------------
(* Definitions the properties are stated with.                             *)

\* the view is_ok()
is_ok == errors = <<>>

\* the ranges of the substitutions that contain the source index i
Covering(ents, i) ==
  {k \in 1..Len(ents) : ents[k][1][1] <= i /\ i <= ents[k][1][2]}

\* the bytes a substitution stands for, as the view kind defines them
Replacement(item) ==
  IF IsCharEntity(item) THEN write_bytes(item) ELSE item.bytes

\* The input with each substituted range replaced by its replacement, read
\* from source index i on: what the logical byte stream has to be.
RECURSIVE Splice(_, _, _)
Splice(bytes, ents, i) ==
  IF i >= Len(bytes) THEN <<>>
  ELSE LET at == {k \in 1..Len(ents) : ents[k][1][1] = i}
       IN IF at # {}
          THEN LET k == CHOOSE k \in at : TRUE
               IN Replacement(ents[k][2]) \o Splice(bytes, ents, ents[k][1][2] + 1)
          ELSE <<At(bytes, i)>> \o Splice(bytes, ents, i + 1)

\* the index in the logical byte stream of the unreplaced source index i
RECURSIVE Shift(_, _, _)
Shift(ents, i, k) ==
  IF k > Len(ents) THEN 0
  ELSE (IF ents[k][1][2] < i
        THEN Len(Replacement(ents[k][2])) - (ents[k][1][2] - ents[k][1][1] + 1)
        ELSE 0) + Shift(ents, i, k + 1)

OutPos(ents, i) == i + Shift(ents, i, 1)

\* Well-formed UTF-8 (Unicode 3.9, table 3-7): the length of the well-formed
\* sequence that starts at index i, 0 when there is none.
IsContinuation(b) == b \in 128..191

WellFormedLen(bytes, i) ==
  LET n == Len(bytes) - i
      b0 == At(bytes, i)
  IN IF b0 < 128 THEN 1
     ELSE IF /\ b0 \in 194..223
             /\ n >= 2
             /\ IsContinuation(At(bytes, i + 1))
     THEN 2
     ELSE IF /\ b0 \in 224..239
             /\ n >= 3
             /\ IsContinuation(At(bytes, i + 1))
             /\ IsContinuation(At(bytes, i + 2))
             /\ (b0 = 224 => At(bytes, i + 1) >= 160)
             /\ (b0 = 237 => At(bytes, i + 1) <= 159)
     THEN 3
     ELSE IF /\ b0 \in 240..244
             /\ n >= 4
             /\ IsContinuation(At(bytes, i + 1))
             /\ IsContinuation(At(bytes, i + 2))
             /\ IsContinuation(At(bytes, i + 3))
             /\ (b0 = 240 => At(bytes, i + 1) >= 144)
             /\ (b0 = 244 => At(bytes, i + 1) <= 143)
     THEN 4
     ELSE 0

\* the indexes from i on that belong to a well-formed sequence
RECURSIVE WellFormedFrom(_, _)
WellFormedFrom(bytes, i) ==
  IF i >= Len(bytes) THEN {}
  ELSE LET n == WellFormedLen(bytes, i)
       IN IF n = 0 THEN WellFormedFrom(bytes, i + 1)
          ELSE (i..(i + n - 1)) \cup WellFormedFrom(bytes, i + n)

Malformed(bytes) == (0..(Len(bytes) - 1)) \ WellFormedFrom(bytes, 0)

\* a numeric reference "&#D;" or "&#xH;": its radix, its digits, and its
\* value, capped at 0x110000 (every larger value is as invalid)
RefRadix(ref) == IF At(ref, 2) \in {B_x, B_X} THEN 16 ELSE 10
RefDigits(ref) ==
  IF RefRadix(ref) = 16 THEN Slice(ref, 3, Len(ref) - 1)
  ELSE Slice(ref, 2, Len(ref) - 1)

RECURSIVE CappedValue(_, _, _)
CappedValue(acc, digits, radix) ==
  IF digits = <<>> THEN acc
  ELSE LET v == acc * radix + Unwrap(ToDigit(Head(digits), radix))
       IN CappedValue(IF v > 1114112 THEN 1114112 ELSE v, Tail(digits), radix)

RefValue(ref) == CappedValue(0, RefDigits(ref), RefRadix(ref))

IsScalar(n) == n <= 1114111 /\ ~(n \in 55296..57343)

\* the character sets that hold '&'
AmpSets == CharacterSet \ {"NonASCII"}

\* literal inputs and outputs of the tests
T_AmpSemi == <<38, 59>>
T_AbcAmp == <<97, 98, 99, 38>>
T_Num1AmpLt == <<38, 35, 49, 38, 108, 116, 59>>
T_Num1Lt == <<38, 35, 49, 60>>
T_AmpLtSemi == <<38, 108, 116, 59>>

\* the steps of the decode scanner the properties are about
InsideAt(b) ==
  pc = "decode" /\ idx < Len(content) /\ is_in_entity /\ At(content, idx) = b

----------------------------------------------------------------------------
(* C1.  Round trip.                                                        *)

\* C1 as stated: for every valid UTF-8 source, every form and every character
\* set, the bytes of decode(encode(S).to_bytes()) are S.
C1_RoundTripAnySet ==
  pc = "decoded" => to_bytes(content, entities) = source

\* C1 amended: the round trip holds for every form and every character set
\* that holds '&' (all but NonASCII).
C1_RoundTripAmpSets ==
  (pc = "decoded" /\ charset \in AmpSets) =>
     to_bytes(content, entities) = source

\* C1 witness: "&lt;" encoded under Html to "&amp;lt;" and decoded back.
C1_Witness ==
  /\ pc = "decoded"
  /\ charset = "Html"
  /\ source = T_AmpLtSemi
  /\ content # source
  /\ Len(entities) = 1
  /\ to_bytes(content, entities) = source

----------------------------------------------------------------------------
(* C2.  Numeric bounds.                                                    *)

\* C2: a numeric reference of value n is substituted if and only if n is a
\* Unicode scalar (n <= 0x10FFFF, not a surrogate), and then by the scalar n.
C2_NumericBounds ==
  pc = "decoded" =>
     /\ (Len(entities) = 1) <=> IsScalar(RefValue(content))
     /\ Len(entities) = 1 => entities[1][2].ch = RefValue(content)

----------------------------------------------------------------------------
(* C3.  encode_with_to against encode_with.                                *)

\* C3: the bytes encode_with_to appends to the buffer are the bytes of the
\* view encode_with returns for the same input, form and classifier.
C3_EncodeToAppendsToBytes ==
  pc = "encoded_to" => data = data0 \o to_bytes(content, entities)

----------------------------------------------------------------------------
(* C4.  decode_to against decode.                                          *)

\* C4: the bytes decode_to appends are the bytes of the view decode returns,
\* and the bytes the buffer held before the call stay in front, unchanged.
C4_DecodeToAppendsToBytes ==
  /\ pc \in {"decode_to", "decoded_to"} =>
        /\ Len(data) >= Len(data0)
        /\ SubSeq(data, 1, Len(data0)) = data0
  /\ pc = "decoded_to" =>
        SubSeq(data, Len(data0) + 1, Len(data)) = to_bytes(content, entities)

\* C4 witness: decode_to returned after a substitution, a rejected token and
\* an entity left open, into a buffer that was not empty.
C4_Witness ==
  /\ pc = "decoded_to"
  /\ data0 # <<>>
  /\ Len(entities) >= 1
  /\ Len(errors) >= 1
  /\ is_in_entity
  /\ SubSeq(data, Len(data0) + 1, Len(data)) # content

----------------------------------------------------------------------------
(* C5.  Malformed UTF-8 under encode.                                      *)

\* C5: every byte of the input that is not part of a well-formed UTF-8
\* sequence lies outside every substitution range of the encoded view and is,
\* unchanged, at its place in to_bytes().
C5_MalformedPassThrough ==
  pc = "encoded" =>
     \A i \in Malformed(content) :
        /\ Covering(entities, i) = {}
        /\ At(to_bytes(content, entities), OutPos(entities, i)) = At(content, i)

----------------------------------------------------------------------------
(* C6.  The empty token "&;".                                              *)

----------------------------------------------------------------------------
(* C7.  The entity left open at the end of the input.                      *)

\* C7: when the input ends Inside, decode records exactly one error whose
\* range runs from the open '&' to the end of the input; decode("abc&") has
\* the bytes "abc&", one error, and is_ok() is false.
C7_UnterminatedOneError ==
  /\ (pc = "decoded" /\ is_in_entity) =>
        Cardinality({k \in 1..Len(errors) :
                       errors[k][1] = <<start_index - 1, Len(content) - 1>>}) = 1
  /\ (pc = "decoded" /\ content = T_AbcAmp) =>
        /\ to_bytes(content, entities) = T_AbcAmp
        /\ Len(errors) = 1
        /\ ~is_ok

----------------------------------------------------------------------------
(* C8.  The token handed to the recognizer.                                *)

\* C8: Inside at s, on ';' at i > s: if the recognizer rejects bytes[s..i],
\* exactly one error of range (s-1 ..= i) is appended and the substitutions
\* are unchanged; if it accepts, exactly one substitution of range
\* (s-1 ..= i), of the accepted scalar, is appended and no error.
C8_TokenEnd ==
  [][(InsideAt(B_SEMI) /\ idx > start_index) =>
       LET r == EntityDecode(Slice(content, start_index, idx))
           range == <<start_index - 1, idx>>
       IN /\ At(content, range[1]) = B_AMP
          /\ IF IsSome(r)
             THEN /\ Len(entities') = Len(entities) + 1
                  /\ SubSeq(entities', 1, Len(entities)) = entities
                  /\ entities'[Len(entities')][1] = range
                  /\ entities'[Len(entities')][2].ch = Unwrap(r)
                  /\ errors' = errors
             ELSE /\ Len(errors') = Len(errors) + 1
                  /\ SubSeq(errors', 1, Len(errors)) = errors
                  /\ errors'[Len(errors')][1] = range
                  /\ entities' = entities]_vars

\* C8 witness: decode returned with a substitution and a rejected token.
C8_Witness ==
  /\ pc = "decoded"
  /\ Len(entities) >= 1
  /\ \E k \in 1..Len(errors) : errors[k][2] = "Entity::decode"

----------------------------------------------------------------------------
(* C9.  Failure containment.                                               *)

\* C9: decode never aborts (Inside, 1 <= start_index <= idx, so no index
\* underflows), and the bytes of the returned view are the input with each
\* substituted range replaced: every byte outside the substitutions is
\* emitted unchanged and in order, the bytes of every error range and of the
\* token left open included.
C9_Containment ==
  /\ (pc = "decode" /\ is_in_entity) => (1 <= start_index /\ start_index <= idx)
  /\ pc = "decoded" =>
        /\ to_bytes(content, entities) = Splice(content, entities, 0)
        /\ \A e \in 1..Len(errors) :
              \A i \in errors[e][1][1]..errors[e][1][2] :
                 /\ Covering(entities, i) = {}
                 /\ At(to_bytes(content, entities), OutPos(entities, i))
                       = At(content, i)
        /\ is_in_entity =>
              \A i \in (start_index - 1)..(Len(content) - 1) :
                 /\ Covering(entities, i) = {}
                 /\ At(to_bytes(content, entities), OutPos(entities, i))
                       = At(content, i)

\* C9 witness: decode returned with a substitution, an error before it and an
\* entity left open after it.
C9_Witness ==
  /\ pc = "decoded"
  /\ Len(entities) = 1
  /\ Len(errors) >= 1
  /\ is_in_entity
  /\ errors[1][1][2] < entities[1][1][1]
  /\ start_index - 1 > entities[1][1][2]

----------------------------------------------------------------------------
(* C10.  A second '&' before the ';'.                                      *)

\* C10: Inside, on '&' at i, the scanner appends exactly one error, whose
\* range is the single byte of the previous '&', stays Inside and sets
\* start_index to i + 1; decode("&#1&lt;") has the bytes "&#1<", one error
\* and one substitution.
C10_UnencodedAmpersand ==
  [][/\ InsideAt(B_AMP) =>
           /\ Len(errors') = Len(errors) + 1
           /\ SubSeq(errors', 1, Len(errors)) = errors
           /\ errors'[Len(errors')][1] = <<start_index - 1, start_index - 1>>
           /\ At(content, start_index - 1) = B_AMP
           /\ entities' = entities
           /\ is_in_entity'
           /\ start_index' = idx + 1
     /\ (pc' = "decoded" /\ content' = T_Num1AmpLt) =>
           /\ to_bytes(content', entities') = T_Num1Lt
           /\ Len(errors') = 1
           /\ Len(entities') = 1]_vars

\* C10 witness: decode("&#1&lt;") has returned.
C10_Witness ==
  /\ pc = "decoded"
  /\ content = T_Num1AmpLt
  /\ Len(errors) = 1
  /\ errors[1][1] = <<0, 0>>
  /\ Len(entities) = 1

----------------------------------------------------------------------------
(* The conversions of the views.  A String is modelled by its UTF-8 bytes,  *)
(* a Vec<char> by the sequence of its code points; a Result is an Option.   *)

\* std::str::from_utf8(bytes): the bytes when they are well-formed UTF-8
from_utf8(bytes) == IF Malformed(bytes) = {} THEN Some(bytes) ELSE None

\* CharEntity::write_string: what is pushed to the String; every byte of
\* entity_data is pushed as the char of that value
write_string(e) ==
  <<B_AMP>>
  \o (CASE e.entity_type = "Named" -> <<>>
        [] e.entity_type = "Hex" -> <<B_HASH, B_x>>
        [] e.entity_type = "Decimal" -> <<B_HASH>>)
  \o Utf8(e.entity_data) \o <<B_SEMI>>

\* the closures of From<&EncodedData> and From<&DecodedData> for StringResult
string_handle(item) ==
  IF IsCharEntity(item) THEN write_string(item) ELSE char_to_utf8_bytes(item.ch)

\* the for loop of call_into_string_trait from the k-th substitution on, and
\* what follows it
RECURSIVE string_loop(_, _, _, _, _)
string_loop(bytes, ents, k, index, result) ==
  IF k > Len(ents)
  THEN IF index < Len(bytes)
       THEN LET code == from_utf8(SliceFrom(bytes, index))
            IN IF IsSome(code) THEN Some(result \o Unwrap(code)) ELSE None
       ELSE Some(result)
  ELSE LET start == ents[k][1][1]
           end == ents[k][1][2]
           code == IF index < start THEN from_utf8(Slice(bytes, index, start))
                   ELSE Some(<<>>)
       IN IF IsSome(code)
          THEN string_loop(bytes, ents, k + 1, end + 1,
                           result \o Unwrap(code) \o string_handle(ents[k][2]))
          ELSE None

\* call_into_string_trait: to_string() of a view
call_into_string_trait(bytes, ents) ==
  IF ents = <<>> THEN from_utf8(bytes)
  ELSE string_loop(bytes, ents, 1, 0, <<>>)

\* bytes_to_chars from the byte index i on: the characters pushed, None when
\* the scanner hands over a Wrong event
RECURSIVE bytes_to_chars_from(_, _, _, _, _, _)
bytes_to_chars_from(bytes, i, nc, c, start, chars) ==
  IF i >= Len(bytes) THEN Some(chars)
  ELSE LET r == loop_utf8_bytes(nc, c, start, i, At(bytes, i))
       IN IF IsSome(r.event) /\ Unwrap(r.event).kind = "Wrong" THEN None
          ELSE bytes_to_chars_from(bytes, i + 1, r.next_count, r.ch,
                                   r.start_index,
                                   IF IsSome(r.event)
                                   THEN Append(chars, Unwrap(r.event).ch)
                                   ELSE chars)

\* bytes_to_chars(bytes, &mut data): the characters appended, None for Err
bytes_to_chars(bytes) == bytes_to_chars_from(bytes, 0, 0, 0, 0, <<>>)

\* CharEntity::write_chars: the characters pushed
write_chars(e) ==
  <<B_AMP>>
  \o (CASE e.entity_type = "Named" -> <<>>
        [] e.entity_type = "Hex" -> <<B_HASH, B_x>>
        [] e.entity_type = "Decimal" -> <<B_HASH>>)
  \o e.entity_data \o <<B_SEMI>>

\* the closures of From<&EncodedData> and From<&DecodedData> for
\* CharListResult
chars_handle(item) ==
  IF IsCharEntity(item) THEN write_chars(item) ELSE <<item.ch>>

\* the for loop of call_into_char_list_trait from the k-th substitution on,
\* and what follows it
RECURSIVE chars_loop(_, _, _, _, _)
chars_loop(bytes, ents, k, index, result) ==
  IF k > Len(ents)
  THEN IF index < Len(bytes)
       THEN LET run == bytes_to_chars(SliceFrom(bytes, index))
            IN IF IsSome(run) THEN Some(result \o Unwrap(run)) ELSE None
       ELSE Some(result)
  ELSE LET start == ents[k][1][1]
           end == ents[k][1][2]
           run == IF index < start THEN bytes_to_chars(Slice(bytes, index, start))
                  ELSE Some(<<>>)
       IN IF IsSome(run)
          THEN chars_loop(bytes, ents, k + 1, end + 1,
                          result \o Unwrap(run) \o chars_handle(ents[k][2]))
          ELSE None

\* call_into_char_list_trait: to_chars() of a view
call_into_char_list_trait(bytes, ents) ==
  IF ents = <<>> THEN bytes_to_chars(bytes)
  ELSE chars_loop(bytes, ents, 1, 0, <<>>)

----------------------------------------------------------------------------
(* C11: tie-break on '&'.  In decode, decode_to, decode_chars and          *)
(* decode_chars_to every slice handed to the recognizer Entity::decode is  *)
(* non-empty, holds no '&' and no ';', and is exactly what lies between     *)
(* the last '&' before the terminating ';' and that ';'.                   *)

\* the scanner stands on a ';' that ends a token
AtTokenEnd ==
  /\ pc \in {"decode", "decode_to", "decode_chars", "decode_chars_to",
             "decode_chars.decode_chars_to"}
  /\ idx < Len(content)
  /\ is_in_entity
  /\ At(content, idx) = B_SEMI
  /\ start_index # idx

\* the slices the next step hands to Entity::decode
HandedToRecognizer ==
  IF ~AtTokenEnd THEN {}
  ELSE IF pc \in {"decode", "decode_to"}
  THEN {Slice(content, start_index, idx)}
  ELSE LET bytes == tr_chars_to_utf8_bytes(Slice(content, start_index, idx))
       IN IF IsSome(bytes) THEN {Unwrap(bytes)} ELSE {}

\* the index of the last '&' before the index i of the input
LastAmpBefore(i) ==
  LET amps == {j \in 0..(i - 1) : At(content, j) = B_AMP}
  IN IF amps = {} THEN None
     ELSE Some(CHOOSE j \in amps : \A k \in amps : k <= j)

\* C11: a slice handed to the recognizer is non-empty, free of '&' and ';',
\* and is the input from after the last '&' before the ';' up to the ';'
C11_TieBreak ==
  \A slice \in HandedToRecognizer :
    /\ slice # <<>>
    /\ \A k \in 1..Len(slice) : slice[k] # B_AMP /\ slice[k] # B_SEMI
    /\ IsSome(LastAmpBefore(idx))
    /\ slice = Slice(content, Unwrap(LastAmpBefore(idx)) + 1, idx)

\* decode_chars_to, called by decode_chars after a first entity, hands over
\* a token in front of which an earlier '&' was dropped
C11_Witness ==
  /\ pc = "decode_chars.decode_chars_to"
  /\ HandedToRecognizer # {}
  /\ \E j \in 0..(start_index - 2) :
       /\ At(content, j) = B_AMP
       /\ \A k \in j..(start_index - 1) : At(content, k) # B_SEMI

----------------------------------------------------------------------------
(* C12: preferred name.  For every table sorted by code and every code     *)
(* point with an entry, encode_char with the Named bit returns the name at  *)
(* the smallest index of that code, wherever the binary search landed.      *)

\* the smallest index of the table whose code is c
SmallestIndexOf(c) ==
  CHOOSE i \in BinarySearchHits(c) : \A j \in BinarySearchHits(c) : i <= j

\* C12: with the Named bit and an entry of the code in the table, encode_char
\* returns Named with the name at the smallest index of that code
C12_PreferredName ==
  (pc = "encode_char" /\ HasBit(encode_type, ET_Named)
     /\ BinarySearchHits(ch) # {})
  => ret = Some(Some(CharEntity("Named", At(table, SmallestIndexOf(ch))[1])))

\* encode_char returned a name of a code that has three entries with three
\* names, the search having landed on any of them
C12_Witness ==
  /\ pc = "encode_char"
  /\ HasBit(encode_type, ET_Named)
  /\ Cardinality(BinarySearchHits(ch)) >= 3
  /\ Cardinality({At(table, i)[1] : i \in BinarySearchHits(ch)}) >= 3
  /\ IsSome(ret) /\ IsSome(Unwrap(ret))
  /\ Unwrap(Unwrap(ret)).entity_type = "Named"

----------------------------------------------------------------------------
(* C13: form preference and fallback.  encode_char returns Named when the   *)
(* Named bit is set and the code point has a name; otherwise Hex, the       *)
(* lowercase hexadecimal without leading zeros, when the Hex bit is set;    *)
(* otherwise Decimal, the base-10 digits, when the Decimal bit is set; and  *)
(* None exactly when the form is Named alone and there is no name.          *)

\* the code point has an entry in the table
HasName(c) == \E k \in 1..Len(table) : table[k][2] = c

\* the number a digit string denotes in the radix, digits as listed in order
RECURSIVE DigitsValue(_, _, _)
DigitsValue(digits, alphabet, radix) ==
  IF digits = <<>> THEN 0
  ELSE LET last == digits[Len(digits)]
           d == CHOOSE k \in 1..Len(alphabet) : alphabet[k] = last
       IN DigitsValue(SubSeq(digits, 1, Len(digits) - 1), alphabet, radix)
            * radix + (d - 1)

\* "0123456789abcdef" and "0123456789"
LowerHexAlphabet ==
  <<48, 49, 50, 51, 52, 53, 54, 55, 56, 57, 97, 98, 99, 100, 101, 102>>
DecimalAlphabet == <<48, 49, 50, 51, 52, 53, 54, 55, 56, 57>>

\* digits is the numeral of c over the alphabet, without leading zeros
IsNumeralOf(digits, alphabet, c) ==
  /\ digits # <<>>
  /\ \A k \in 1..Len(digits) : \E j \in 1..Len(alphabet) : alphabet[j] = digits[k]
  /\ (Len(digits) = 1 \/ digits[1] # 48)
  /\ DigitsValue(digits, alphabet, Len(alphabet)) = c

\* C13: the form encode_char returns and its payload, for every code point
\* and every form
C13_FormPreference ==
  (pc = "encode_char")
  => LET r == Unwrap(ret) IN
     /\ IF HasBit(encode_type, ET_Named) /\ HasName(ch)
        THEN IsSome(r) /\ Unwrap(r).entity_type = "Named"
        ELSE IF HasBit(encode_type, ET_Hex)
        THEN /\ IsSome(r)
             /\ Unwrap(r).entity_type = "Hex"
             /\ IsNumeralOf(Unwrap(r).entity_data, LowerHexAlphabet, ch)
        ELSE IF HasBit(encode_type, ET_Decimal)
        THEN /\ IsSome(r)
             /\ Unwrap(r).entity_type = "Decimal"
             /\ IsNumeralOf(Unwrap(r).entity_data, DecimalAlphabet, ch)
        ELSE r = None
     /\ (r = None) <=> (encode_type = ET_Named /\ ~HasName(ch))

\* encode_char fell back from Named to Hex on a code point above 0xFF that
\* has no name
C13_Witness ==
  /\ pc = "encode_char"
  /\ encode_type = ET_NamedOrHex
  /\ ch > 255
  /\ ~HasName(ch)
  /\ IsSome(Unwrap(ret))
  /\ Unwrap(Unwrap(ret)).entity_type = "Hex"

----------------------------------------------------------------------------
(* C14: the classifier.  CharacterSet::filter says encode exactly for the  *)
(* members of the set, carries the precomputed Named replacement exactly    *)
(* when the character is a special character of the set and the form has    *)
(* the Named bit, and contains agrees with the decision of filter.          *)

\* the special characters a character set names, as the claim lists them
SpecialsOf(cs) ==
  CASE cs \in {"Html", "HtmlAndNonASCII"} -> {60, 62, 38}
    [] cs \in {"SpecialChars", "SpecialCharsAndNonASCII"} -> {60, 62, 38, 39, 34}
    [] OTHER -> {}

\* the members of a character set, as the claim lists them
InSet(cs, c) ==
  \/ cs = "All"
  \/ cs \in {"NonASCII", "HtmlAndNonASCII", "SpecialCharsAndNonASCII"} /\ c > 255
  \/ c \in SpecialsOf(cs)

\* lt, gt, amp, quot, apos
NameOfSpecial(c) ==
  CASE c = 60 -> <<108, 116>>
    [] c = 62 -> <<103, 116>>
    [] c = 38 -> <<97, 109, 112>>
    [] c = 34 -> <<113, 117, 111, 116>>
    [] c = 39 -> <<97, 112, 111, 115>>

\* C14: the decision and the replacement of filter, and the answer of
\* contains, for every character, form and character set
C14_Classifier ==
  /\ (pc = "filter")
     => /\ Unwrap(ret)[1] = InSet(charset, ch)
        /\ Unwrap(ret)[2] =
             IF ch \in SpecialsOf(charset) /\ HasBit(encode_type, ET_Named)
             THEN Some(<<"Named", NameOfSpecial(ch)>>)
             ELSE None
  /\ (pc = "contains")
     => /\ Unwrap(ret) = InSet(charset, ch)
        /\ \A t \in EncodeType : filter(charset, ch, t)[1] = Unwrap(ret)

\* filter answered with the precomputed "apos" for '\'' under
\* SpecialCharsAndNonASCII
C14_Witness ==
  /\ pc = "filter"
  /\ charset = "SpecialCharsAndNonASCII"
  /\ ch = 39
  /\ ret = Some(<<TRUE, Some(<<"Named", N_apos>>)>>)

----------------------------------------------------------------------------
(* C15: charset monotonicity.  For every input, every form and every pair  *)
(* of character sets one within the other, a substitution range of the      *)
(* encoding under the smaller set is one of the encoding under the larger.  *)

\* the character sets within a character set
SetsWithin(cs) ==
  CASE cs = "All" -> CharacterSet \ {"All"}
    [] cs = "SpecialCharsAndNonASCII" ->
         {"Html", "SpecialChars", "NonASCII", "HtmlAndNonASCII"}
    [] cs = "HtmlAndNonASCII" -> {"Html", "NonASCII"}
    [] cs = "SpecialChars" -> {"Html"}
    [] OTHER -> {}

\* the ranges of a substitution list
Ranges(ents) == {ents[k][1] : k \in 1..Len(ents)}

\* C15: the ranges encode_with substitutes under a set within charset are
\* among those it substituted under charset
C15_Monotone ==
  (pc = "encoded")
  => \A A \in SetsWithin(charset) :
       Ranges(encode_with(content, encode_type, A)) \subseteq Ranges(entities)

\* an encoding with a substitution that a smaller set makes too and one that
\* the smaller set does not make
C15_Witness ==
  /\ pc = "encoded"
  /\ \E A \in SetsWithin(charset) :
       /\ Ranges(encode_with(content, encode_type, A)) # {}
       /\ Ranges(encode_with(content, encode_type, A)) # Ranges(entities)

----------------------------------------------------------------------------
(* C16: view consistency.  On every view made by encode_with or decode,     *)
(* bytes_len() is the length of to_bytes(), byte(i) is to_bytes()[i] below   *)
(* that length and None from it on, and into_iter yields the bytes of        *)
(* to_bytes() in order, tagged None for a source byte and Some((k, j)) for   *)
(* byte j of the k-th substitution.                                          *)

\* The logical byte stream with its tags, read off the input and the
\* substitution list from source index i on.
RECURSIVE TaggedSplice(_, _, _)
TaggedSplice(bytes, ents, i) ==
  IF i >= Len(bytes) THEN <<>>
  ELSE LET at == {k \in 1..Len(ents) : ents[k][1][1] = i}
       IN IF at # {}
          THEN LET k == CHOOSE k \in at : TRUE
                   r == Replacement(ents[k][2])
               IN [j \in 1..Len(r) |-> <<r[j], Some(<<k - 1, j - 1>>)>>]
                    \o TaggedSplice(bytes, ents, ents[k][1][2] + 1)
          ELSE <<(<<At(bytes, i), None>>)>> \o TaggedSplice(bytes, ents, i + 1)


\* a view is at hand: encode_with or decode has returned
IsView == pc \in {"encoded", "decoded"}

\* C16: bytes_len(), byte(i) and into_iter() agree with to_bytes()
C16_ViewConsistency ==
  IsView
  => LET tb == to_bytes(content, entities)
         n == call_trait_method_bytes_len(content, entities)
         items == into_iter(content, entities)
     IN /\ n = Len(tb)
        /\ \A i \in 0..(Len(tb) + ProbePast) :
             call_trait_method_byte(content, entities, i)
               = IF i < Len(tb) THEN Some(At(tb, i)) ELSE None
        /\ items = TaggedSplice(content, entities, 0)
        /\ tb = [k \in 1..Len(items) |-> items[k][1]]

\* a decoded view with two substitutions, source bytes left between or
\* around them, and fewer bytes than its input
C16_Witness ==
  /\ pc = "decoded"
  /\ Len(entities) >= 2
  /\ \E k \in 1..Len(into_iter(content, entities)) :
       into_iter(content, entities)[k][2] = None
  /\ call_trait_method_bytes_len(content, entities) < Len(content)

----------------------------------------------------------------------------
(* C17: view invariants.  In every view of encode_with and decode the       *)
(* ranges are strictly increasing and disjoint, lie within the input, cover *)
(* exactly the UTF-8 bytes of one code point (encode) or the bytes from '&' *)
(* to ';' (decode), and bytes_len() is the input length minus the lengths    *)
(* of the ranges plus the lengths of the replacements.                       *)

RECURSIVE SumOver(_, _, _)
\* the sum of f[k] for k in from..to
SumOver(f, from, to) ==
  IF from > to THEN 0 ELSE f[from] + SumOver(f, from + 1, to)

\* the range covers the well-formed UTF-8 sequence of one code point
CoversOneCodePoint(bytes, range) ==
  WellFormedLen(bytes, range[1]) = range[2] - range[1] + 1

\* the range covers a token, from its '&' to its ';'
CoversToken(bytes, range) ==
  /\ range[1] < range[2]
  /\ At(bytes, range[1]) = B_AMP
  /\ At(bytes, range[2]) = B_SEMI
  /\ \A i \in (range[1] + 1)..(range[2] - 1) :
       At(bytes, i) # B_AMP /\ At(bytes, i) # B_SEMI

\* C17 as stated: order, disjointness, containment and coverage of the
\* ranges, and the length of the logical byte stream
C17_ViewInvariants ==
  IsView
  => /\ \A k \in 1..Len(entities) :
          /\ 0 <= entities[k][1][1]
          /\ entities[k][1][1] <= entities[k][1][2]
          /\ entities[k][1][2] < Len(content)
     /\ \A k \in 1..(Len(entities) - 1) :
          entities[k][1][2] < entities[k + 1][1][1]
     /\ \A k \in 1..Len(entities) :
          IF IsCharEntity(entities[k][2])
          THEN CoversOneCodePoint(content, entities[k][1])
          ELSE CoversToken(content, entities[k][1])
     /\ call_trait_method_bytes_len(content, entities)
          = Len(content)
            - SumOver([k \in 1..Len(entities) |->
                         entities[k][1][2] - entities[k][1][1] + 1],
                      1, Len(entities))
            + SumOver([k \in 1..Len(entities) |->
                         Len(Replacement(entities[k][2]))],
                      1, Len(entities))

----------------------------------------------------------------------------
(* C18: to_string.  to_string() of a view fails exactly when a run of       *)
(* unreplaced source bytes between substitutions is not valid UTF-8, and    *)
(* when it succeeds the UTF-8 bytes of the string are to_bytes(), also for   *)
(* a view built with the replacement of a caller's classifier.               *)

\* the source indexes no substitution covers
Unreplaced == {i \in 0..(Len(content) - 1) : Covering(entities, i) = {}}

\* the maximal runs of unreplaced source bytes
UnreplacedRuns ==
  {Slice(content, a, b + 1) : <<a, b>> \in
     {r \in Unreplaced \X Unreplaced :
        /\ r[1] <= r[2]
        /\ \A i \in r[1]..r[2] : i \in Unreplaced
        /\ (r[1] - 1) \notin Unreplaced
        /\ (r[2] + 1) \notin Unreplaced}}

\* C18 as stated: when to_string() fails, and what it returns
C18_ToString ==
  IsView
  => LET r == call_into_string_trait(content, entities)
     IN /\ (r = None) <=> (\E run \in UnreplacedRuns : Malformed(run) # {})
        /\ IsSome(r) => Unwrap(r) = to_bytes(content, entities)

----------------------------------------------------------------------------
(* C19: to_chars agrees with to_string.  On every view to_chars() succeeds  *)
(* exactly when to_string() succeeds, and then it returns the characters of *)
(* that string in order.                                                     *)

\* C19 as stated: the same success, and the characters of the string
C19_ToCharsAgrees ==
  IsView
  => LET str == call_into_string_trait(content, entities)
         chars == call_into_char_list_trait(content, entities)
     IN /\ IsSome(chars) <=> IsSome(str)
        /\ IsSome(chars) => Utf8(Unwrap(chars)) = Unwrap(str)

----------------------------------------------------------------------------
(* C20: the grammar of the recognizer.  Entity::decode rejects the empty    *)
(* input and every interior that is neither [A-Za-z][A-Za-z0-9]* nor        *)
(* #[0-9]+ nor #[xX][0-9A-Fa-f]+; an interior of the Named form is accepted  *)
(* exactly when it is in the hand table or in the first-letter bucket of     *)
(* the name-ordered table, and resolves to the code point of that record.    *)

Letters == (65..90) \cup (97..122)
Digits == 48..57
HexDigits == Digits \cup (65..70) \cup (97..102)

\* [A-Za-z][A-Za-z0-9]*
IsNamedForm(b) ==
  /\ Len(b) >= 1
  /\ b[1] \in Letters
  /\ \A k \in 2..Len(b) : b[k] \in Letters \cup Digits

\* #[0-9]+
IsDecimalForm(b) ==
  /\ Len(b) >= 2
  /\ b[1] = 35
  /\ \A k \in 2..Len(b) : b[k] \in Digits

\* #[xX][0-9A-Fa-f]+
IsHexForm(b) ==
  /\ Len(b) >= 3
  /\ b[1] = 35
  /\ b[2] \in {120, 88}
  /\ \A k \in 3..Len(b) : b[k] \in HexDigits

\* the records of the hand table and of the first-letter bucket with the name
HandRecords(b) == {r \in NORMAL_NAME_ENTITY_BYTE : r[1] = b}
BucketRecords(b) ==
  IF b = <<>> \/ b[1] \notin DOMAIN FIRST_LETTER_POSITION THEN {}
  ELSE {LETTER_ORDERED_ENTITIES[i] :
          i \in {j \in (FIRST_LETTER_POSITION[b[1]][1] + 1)
                       ..FIRST_LETTER_POSITION[b[1]][2] :
                   LETTER_ORDERED_ENTITIES[j][1] = b}}

\* C20: what Entity::decode rejects, and what it accepts of the Named form
C20_RecognizerGrammar ==
  (pc = "Entity::decode")
  => LET r == Unwrap(ret) IN
     /\ content = <<>> => r = None
     /\ (~IsNamedForm(content) /\ ~IsDecimalForm(content) /\ ~IsHexForm(content))
        => r = None
     /\ IsNamedForm(content)
        => /\ IsSome(r) <=> (HandRecords(content) \cup BucketRecords(content) # {})
           /\ IsSome(r)
              => \E rec \in HandRecords(content) \cup BucketRecords(content) :
                   Unwrap(r) = rec[2]

\* Entity::decode accepted the name copysr, which only the name-ordered
\* table holds
C20_Witness ==
  /\ pc = "Entity::decode"
  /\ content = N_copysr
  /\ HandRecords(content) = {}
  /\ ret = Some(Some(8471))

----------------------------------------------------------------------------
(* C21: a numeric reference decodes by value.  "#x" and "#X" decode alike,  *)
(* the case of a hex digit does not change the result, and zeros in front   *)
(* of a decimal or hex payload change neither the acceptance nor the        *)
(* scalar.                                                                   *)

\* the interior is Hex: "#x" or "#X" in front of the payload
IsHexInterior(b) == Len(b) >= 2 /\ b[2] \in {B_x, B_X}

\* the number of bytes in front of the payload
PayloadAt(b) == IF IsHexInterior(b) THEN 2 ELSE 1

\* the other case of an ASCII letter, any other byte as it is
OtherCase(b) ==
  IF b \in 65..90 THEN b + 32 ELSE IF b \in 97..122 THEN b - 32 ELSE b

\* the interior with the case changed at the indexes of the set
CaseChanged(b, at) ==
  [k \in 1..Len(b) |-> IF k \in at THEN OtherCase(b[k]) ELSE b[k]]

\* the variants of a Hex interior by case: the other 'x', each digit alone,
\* all digits in upper case, all digits in lower case, and all of it changed
CaseVariants(b) ==
  IF ~IsHexInterior(b) THEN {}
  ELSE {CaseChanged(b, {k}) : k \in 2..Len(b)}
       \cup {CaseChanged(b, {k \in 3..Len(b) : b[k] \in 97..122}),
             CaseChanged(b, {k \in 3..Len(b) : b[k] \in 65..90}),
             CaseChanged(b, 2..Len(b))}

\* the variants of an interior by 1..MaxLeadingZeros zeros in front of the
\* payload
ZeroVariants(b) ==
  {SubSeq(b, 1, PayloadAt(b)) \o [k \in 1..n |-> 48]
     \o SubSeq(b, PayloadAt(b) + 1, Len(b)) : n \in 1..MaxLeadingZeros}

\* C21: Entity::decode returns for every variant by case and by leading
\* zeros what it returned for the interior
C21_ByValue ==
  (pc = "Entity::decode")
  => \A v \in CaseVariants(content) \cup ZeroVariants(content)
              \cup UNION {CaseVariants(z) : z \in ZeroVariants(content)} :
       EntityDecode(v) = Unwrap(ret)

\* Entity::decode accepted "#XFf" as U+00FF, a payload in both cases
C21_Witness ==
  /\ pc = "Entity::decode"
  /\ content = <<B_HASH, B_X, 70, 102>>
  /\ ret = Some(Some(255))
  /\ <<B_HASH, B_x, 48, 48, 102, 70>>
       \in UNION {CaseVariants(z) : z \in ZeroVariants(content)}

----------------------------------------------------------------------------
(* C22: detach.  After to_owned() on an EncodedData or a DecodedData the    *)
(* view holds an owned copy of its logical bytes and no longer borrows the  *)
(* input, with or without substitutions; to_bytes() and bytes_len() are as  *)
(* before, entity_count() is 0, and the errors and is_ok() of a DecodedData *)
(* are unchanged.                                                            *)

\* the step is a call of to_owned()
IsToOwned ==
  \/ pc = "encoded" /\ pc' = "encoded.to_owned"
  \/ pc = "decoded" /\ pc' = "decoded.to_owned"

\* C22 as stated: what a call of to_owned() leaves and what it changes
C22_Detach ==
  [][IsToOwned =>
       /\ cow' = "Owned"
       /\ to_bytes(content', entities') = to_bytes(content, entities)
       /\ call_trait_method_bytes_len(content', entities')
            = call_trait_method_bytes_len(content, entities)
       /\ Len(entities') = 0
       /\ errors' = errors
       /\ (errors' = <<>>) <=> is_ok]_vars

\* what holds of every call of to_owned(): the logical bytes, their length,
\* the errors, no substitution left, and an owned copy when there was one
C22_DetachWithSubstitutions ==
  [][IsToOwned =>
       /\ (entities # <<>> => cow' = "Owned")
       /\ to_bytes(content', entities') = to_bytes(content, entities)
       /\ call_trait_method_bytes_len(content', entities')
            = call_trait_method_bytes_len(content, entities)
       /\ Len(entities') = 0
       /\ errors' = errors
       /\ (errors' = <<>>) <=> is_ok]_vars

----------------------------------------------------------------------------
(* C23: the classifier of the caller.  In encode_with and encode_with_to,   *)
(* for each code point handed to the classifier: (false, _) makes no        *)
(* substitution; (true, Some((type, payload))) makes the substitution that  *)
(* is exactly that entity, whatever the form; (true, None) makes the        *)
(* substitution encode_char returns for the form, and none when it returns  *)
(* None.                                                                     *)

\* the event the scanner reports in the next iteration of its loop
NextEvent ==
  loop_utf8_bytes(next_count, ch, start_index, idx, At(content, idx)).event

\* the next iteration hands a code point to the classifier
HandsToClassifier ==
  /\ pc \in {"encode_with", "encode_with_to"}
  /\ idx < Len(content)
  /\ IsSome(NextEvent)
  /\ Unwrap(NextEvent).kind = "Correct"

\* the entity the claim gives for a code point, None for no substitution
ClaimedEntity(c, t, cs) ==
  LET result == filter_fn(cs, c, t) IN
  IF result[1] = FALSE THEN None
  ELSE IF result[2] # None
  THEN Some([entity_type |-> result[2][1][1], entity_data |-> result[2][1][2]])
  ELSE encode_char(c, t)

\* C23: a step that hands a code point to the classifier appends the claimed
\* substitution over the range of the code point (encode_with), or the bytes
\* of the claimed entity (encode_with_to); without substitution the list is
\* unchanged and the bytes of the code point are copied
C23_UserClassifier ==
  [][HandsToClassifier =>
       LET ev == Unwrap(NextEvent)
           e == ClaimedEntity(ev.ch, encode_type, charset)
       IN /\ pc = "encode_with" =>
               entities' = IF e = None THEN entities
                           ELSE Append(entities, <<ev.range, Unwrap(e)>>)
          /\ pc = "encode_with_to" =>
               data' = data \o (IF e = None
                                THEN Slice(content, ev.range[1], ev.range[2] + 1)
                                ELSE write_bytes(Unwrap(e)))]_vars

\* under the form Named: '\'' was replaced by the classifier's Decimal "39"
\* and U+0100, for which the classifier says (true, None) and encode_char
\* has no name, was left in place
C23_Witness ==
  /\ pc = "encoded_to"
  /\ charset = "AposDecimal"
  /\ encode_type = ET_Named
  /\ \E k \in 1..Len(entities) :
       entities[k][2] = CharEntity("Decimal", <<51, 57>>)
  /\ data \in {<<122, 38, 35, 51, 57, 59, 196, 128>>,
               <<122, 196, 128, 38, 35, 51, 57, 59>>}

----------------------------------------------------------------------------
(* C24: the decoders of characters agree with each other and with the       *)
(* decoder of bytes.  For every list of characters C, decode_chars(C) is    *)
(* what decode_chars_to(C, out) appends to out, and both are the scalars of *)
(* decode(utf8(C)).to_bytes().                                               *)

\* C24: once the four decoders have returned, the characters of decode_chars
\* are those decode_chars_to appended, and their UTF-8 bytes are the bytes
\* of the view of decode
C24_CharDecodersAgree ==
  (pc = "decoded_chars_to")
  => /\ data = data0 \o Unwrap(ret).chars
     /\ Utf8(Unwrap(ret).chars) = to_bytes(Utf8(source), entities)

\* the decoders returned on characters with U+00E9 and a decoded entity,
\* decode_chars having built a new list
C24_Witness ==
  /\ pc = "decoded_chars_to"
  /\ data0 = <<>>
  /\ \E k \in 1..Len(source) : source[k] = 233
  /\ Len(entities) >= 1
  /\ Unwrap(ret).kind = "Owned"
  /\ Unwrap(ret).chars # source

----------------------------------------------------------------------------
(* C25: thread safety.                                                     *)

\* the table as a call that runs alone finds it
Built(t) ==
  CASE t = "HTML_BYTES" -> HTML_BYTES
    [] t = "SPECIAL_BYTES" -> SPECIAL_BYTES
    [] t = "NORMAL_NAME_ENTITY_BYTE" ->
         [n \in {p[1] : p \in NORMAL_NAME_ENTITY_BYTE} |->
            Unwrap(NormalNameGet(n))]

\* the result of the call when it runs alone
Alone(call) ==
  IF call.fn = "decode" THEN EntityDecode(call.content)
  ELSE encode_with(call.content, call.t, call.cs)

\* C25: when threads call encode and decode at the same time, the first uses
\* of the tables included, the initialiser of a table runs once and no more,
\* a thread only ever reads a table that is built in full, a table that is
\* built is never written again, and every call returns what it returns
\* when it runs alone
C25_ThreadSafety ==
  [][/\ \A t \in Tables :
          /\ runs'[t] <= 1
          /\ once'[t] # "Incomplete" => runs'[t] = 1
          /\ once[t] = "Complete" =>
               (once'[t] = "Complete" /\ statics'[t] = statics[t])
     /\ \A th \in Threads :
          /\ \A r \in threads'[th].seen : r[2] = Built(r[1])
          /\ threads'[th].pc = "done" =>
               Unwrap(threads'[th].res) = Alone(threads'[th].call)]_vars

\* two threads have made their first calls at the same time, encode of "'&"
\* over SpecialChars and encode of "<" over Html: both tables were built
\* once, and the calls have returned &apos;, &amp; and &lt;
C25_Witness ==
  /\ pc = "threads"
  /\ threads[1].call.cs = "SpecialChars"
  /\ threads[1].call.content = <<B_APOS, B_AMP>>
  /\ threads[2].call.cs = "Html"
  /\ threads[2].call.content = <<B_LT>>
  /\ threads[1].pc = "done"
  /\ threads[2].pc = "done"
  /\ runs["HTML_BYTES"] = 1
  /\ runs["SPECIAL_BYTES"] = 1
  /\ Len(Unwrap(threads[1].res)) = 2
  /\ Unwrap(threads[2].res) = <<(<<(<<0, 0>>), CharEntity("Named", N_lt)>>)>>

----------------------------------------------------------------------------
(* C26: the round trip when '&' is in the character set.  For every valid   *)
(* UTF-8 string S, every form and every character set among Html,           *)
(* SpecialChars, HtmlAndNonASCII, SpecialCharsAndNonASCII and All, with the *)
(* two orderings of the entity table holding the same records,              *)
(* decode(encode(S, form, charset).to_bytes()) records no error and its     *)
(* to_bytes() is S.                                                          *)

\* the two orderings of the entity table hold the same records
SameRecords ==
  {table[k] : k \in 1..Len(table)}
    = {LETTER_ORDERED_ENTITIES[k] : k \in 1..Len(LETTER_ORDERED_ENTITIES)}

\* C26: under a character set that holds '&', the decoding of the encoded
\* bytes has no error and its bytes are the source
C26_RoundTripNoError ==
  (pc = "decoded" /\ charset \in AmpSets /\ SameRecords)
  => /\ errors = <<>>
     /\ to_bytes(content, entities) = source

\* the round trip of a source with '&', ';', and U+4E16 written as a Hex
\* reference, three substitutions decoded and no error
C26_Witness ==
  /\ pc = "decoded"
  /\ charset = "All"
  /\ encode_type = ET_NamedOrHex
  /\ source = <<B_AMP, B_SEMI>> \o char_to_utf8_bytes(19990)
  /\ SameRecords
  /\ Len(entities) = 3
  /\ errors = <<>>
  /\ to_bytes(content, entities) = source

----------------------------------------------------------------------------
(* C27: the escaping guarantee.  For every byte sequence, valid UTF-8 or    *)
(* not, and every form, the bytes of encode(B, form, Html).to_bytes() hold  *)
(* no raw '<' and no raw '>', and every '&' in them is the first byte of an *)
(* entity the encoder wrote.                                                 *)

\* C27 as stated: in the bytes of the view encoded under Html no byte is
\* '<' or '>', and every '&' is byte 0 of a substitution
C27_Escaping ==
  (pc = "encoded" /\ charset = "Html")
  => LET items == into_iter(content, entities)
     IN \A k \in 1..Len(items) :
          /\ items[k][1] # B_LT
          /\ items[k][1] # B_GT
          /\ items[k][1] = B_AMP
             => (items[k][2] # None /\ Unwrap(items[k][2])[2] = 0)

----------------------------------------------------------------------------
(* C28: the events of the UTF-8 scanner.  For every byte sequence the       *)
(* ranges of the events loop_utf8_bytes reports start at 0, are contiguous  *)
(* and strictly increasing, each of length 1 to 4; a byte that arrives where *)
(* a continuation byte was expected and is not one is in the malformed      *)
(* event and is not scanned again as a lead byte; and the only input bytes  *)
(* covered by no event are those of an incomplete multi-byte sequence at    *)
(* the very end of the input.                                                *)

\* the ranges start at 0, each starts right after the one before, and each
\* covers 1 to 4 bytes
RangesInOrder(evs) ==
  /\ evs # <<>> => evs[1].range[1] = 0
  /\ \A k \in 1..(Len(evs) - 1) :
       /\ evs[k + 1].range[1] = evs[k].range[2] + 1
       /\ evs[k].range[1] < evs[k + 1].range[1]
  /\ \A k \in 1..Len(evs) :
       evs[k].range[2] - evs[k].range[1] + 1 \in 1..4

\* the indexes of the input no event covers
Uncovered(bytes, evs) ==
  (0..(Len(bytes) - 1))
    \ UNION {evs[k].range[1]..evs[k].range[2] : k \in 1..Len(evs)}

\* the number of bytes a lead byte announces, 0 for any other byte
LeadLen(b) ==
  IF b \in 192..223 THEN 2
  ELSE IF b \in 224..239 THEN 3
  ELSE IF b \in 240..247 THEN 4
  ELSE 0

\* the index sets of an incomplete multi-byte sequence at the very end: a
\* lead byte followed to the end by fewer continuation bytes than announced
IncompleteTails(bytes) ==
  {k..(Len(bytes) - 1) : k \in
     {j \in 0..(Len(bytes) - 1) :
        /\ LeadLen(At(bytes, j)) > Len(bytes) - j
        /\ \A i \in (j + 1)..(Len(bytes) - 1) : IsContinuation(At(bytes, i))}}

\* the next iteration reads, where a continuation byte is expected, a byte
\* that is not one
BreaksSequence ==
  /\ pc = "loop_utf8_bytes"
  /\ idx < Len(content)
  /\ next_count > 0
  /\ ~IsContinuation(At(content, idx))

\* the byte that breaks a sequence is the last byte of a Wrong event that
\* starts at the lead byte, and the state is reset without reading it again
SwallowsBreakingByte ==
  BreaksSequence =>
    /\ events' = Append(events, Wrong(start_index, idx))
    /\ start_index < idx
    /\ next_count' = 0
    /\ idx' \in {idx, idx + 1}
    /\ pc' = "loop_utf8_bytes" => idx' = idx + 1

\* C28 as stated: order and length of the ranges, the byte that breaks a
\* sequence, and the bytes no event covers when loop_utf8_bytes has returned
C28_ScannerEvents ==
  [][/\ RangesInOrder(events')
     /\ SwallowsBreakingByte
     /\ pc' = "loop_utf8_bytes.return" =>
          \/ Uncovered(content', events') = {}
          \/ Uncovered(content', events') \in IncompleteTails(content')]_vars

\* C28 amended: as stated when loop_utf8_bytes returns Ok; when the handler
\* returns Err for a Wrong event, loop_utf8_bytes returns that Err at once
\* and the bytes no event covers are all those after that event
C28_ScannerEventsUntilErr ==
  [][/\ RangesInOrder(events')
     /\ SwallowsBreakingByte
     /\ (pc' = "loop_utf8_bytes.return" /\ ret' = Some("Ok")) =>
          \/ Uncovered(content', events') = {}
          \/ Uncovered(content', events') \in IncompleteTails(content')
     /\ (pc' = "loop_utf8_bytes.return" /\ ret' = Some("Err")) =>
          /\ events' # <<>>
          /\ events'[Len(events')].kind = "Wrong"
          /\ \A k \in 1..(Len(events') - 1) : events'[k].kind = "Correct"
          /\ Uncovered(content', events')
               = (events'[Len(events')].range[2] + 1)..(Len(content') - 1)]_vars

\* loop_utf8_bytes returned Ok on the bytes C3 3C E2 84: one Wrong event over
\* the lead byte and the '<' that broke its sequence, and the two bytes of
\* the incomplete sequence at the end covered by no event
C28_Witness ==
  /\ pc = "loop_utf8_bytes.return"
  /\ ret = Some("Ok")
  /\ content = <<195, 60, 226, 132>>
  /\ events = <<Wrong(0, 1)>>
  /\ Uncovered(content, events) = {2, 3}

----------------------------------------------------------------------------
(* C29: no panic.                                                          *)

\* the event the next iteration of loop_utf8_bytes hands to the closure of
\* encode_with or encode_with_to, if any
ScanEvent ==
  loop_utf8_bytes(next_count, ch, start_index, idx, At(content, idx)).event

\* content[a..b] is within the input
SliceWithin(a, b) == 0 <= a /\ a <= b /\ b <= Len(content)

\* the slices the next step of the running call takes are within the input
SlicesWithinInput ==
  /\ (pc = "encode_with_to" /\ idx < Len(content) /\ IsSome(ScanEvent)) =>
       SliceWithin(Unwrap(ScanEvent).range[1], Unwrap(ScanEvent).range[2] + 1)
  /\ (pc = "decode" /\ idx < Len(content) /\ is_in_entity
        /\ At(content, idx) = B_SEMI /\ start_index # idx) =>
       SliceWithin(start_index, idx)
  /\ (pc = "decode_to" /\ idx < Len(content) /\ is_in_entity
        /\ At(content, idx) = B_SEMI) =>
       /\ start_index # idx => SliceWithin(start_index, idx)
       /\ SliceWithin(start_index - 1, idx + 1)
  /\ (pc = "decode_to" /\ idx < Len(content) /\ is_in_entity
        /\ At(content, idx) = B_AMP) =>
       SliceWithin(start_index - 1, idx)
  /\ (pc = "decode_to" /\ idx = Len(content) /\ is_in_entity) =>
       SliceWithin(start_index - 1, Len(content))

\* C29: encode, encode_to, decode and decode_to on any bytes, and next() and
\* byte(i) on the views, never panic: the continuation counter stays in 0..3,
\* start_index is at least 1 while the decode scanner is inside a token, every
\* slice is within the input, and neither DataIter::next nor byte(i) reaches
\* an unwrap or expect of None, an index out of range or unreachable!()
C29_NoPanic ==
  /\ pc # "panic"
  /\ pc \in {"encode_with", "encode_with_to"} => next_count \in 0..3
  /\ (pc \in {"decode", "decode_to"} /\ is_in_entity) => start_index >= 1
  /\ SlicesWithinInput
  /\ pc = "into_iter" =>
       ~DataIterNextPanics(Unwrap(iter), content, entities)
  /\ pc \in {"encoded", "decoded"} =>
       \A i \in 0..(call_trait_method_bytes_len(content, entities) + ProbePast) :
          ~call_trait_method_byte_panics(entities, i)

\* the iterator of encode([0x3C, 0xC3], Hex, Html) has returned the six
\* bytes of "&#x3c;", then 0xC3, then None
C29_Witness ==
  /\ pc = "into_iter"
  /\ content = <<B_LT, 195>>
  /\ encode_type = ET_Hex
  /\ Len(entities) = 1
  /\ prefix_len(entities[1][2]) = 2
  /\ yielded = 7
  /\ calls = 8
  /\ ret = None

----------------------------------------------------------------------------
(* C30: the iterator ends.                                                 *)

\* C30: on every view of encode or decode a call of next() returns Some
\* exactly when fewer than bytes_len() calls were made before it, so Some
\* bytes_len() times and None ever after; the source index of the iterator
\* never decreases and its substitution index never decreases
C30_IteratorTermination ==
  [][(pc = "into_iter" /\ calls' = calls + 1) =>
       /\ IsSome(ret') <=>
            calls < call_trait_method_bytes_len(content, entities)
       /\ Unwrap(iter').byte_index >= Unwrap(iter).byte_index
       /\ Unwrap(iter').entity_index >= Unwrap(iter).entity_index
       /\ Unwrap(iter').entity_index
            \in {Unwrap(iter).entity_index, Unwrap(iter).entity_index + 1}]_vars

\* the iterator of decode(b"&lt;;") has returned '<' and ';' and then None
\* twice
C30_Witness ==
  /\ pc = "into_iter"
  /\ content = <<B_AMP, 108, 116, B_SEMI, B_SEMI>>
  /\ Len(entities) = 1
  /\ ~IsCharEntity(entities[1][2])
  /\ Unwrap(iter).byte_index = 5
  /\ Unwrap(iter).entity_index = 1
  /\ yielded = 2
  /\ calls = 4
  /\ ret = None

====
